---- MODULE Spec2Model ----
(***************************************************************************)
(* A model of the SAAAM compiler (class SaaamCompiler in                   *)
(* src/desktop-exporter.js): the regex-driven tokenizer, the recursive     *)
(* descent parser, the analyser, the emitter and the compile facade.       *)
(*                                                                         *)
(* Source text and lexemes are sequences of one-character strings.  The    *)
(* state is one compiler instance (its five fields), the local variables   *)
(* of a running tokenize, and the position of the running call.            *)
(***************************************************************************)
EXTENDS Integers, Sequences, FiniteSets, TLC

VARIABLES
    code,          \* argument of the running (or last) call
    position,      \* tokenize's local `position`; `remaining` is code.slice(position)
    tokens,        \* this.tokens
    ast,           \* this.ast
    currentToken,  \* this.currentToken
    errors,        \* this.errors
    warnings,      \* this.warnings
    js,            \* compile's local `js`
    spin,          \* the error a parser loop that never ends records at each repetition
    pc,            \* where the running call is
    caller,        \* the public method that was called: tokenize, compile, compileToJS
    calls,         \* how many calls this instance has had
    result,        \* the object the running call's compile returned
    output         \* the text the running call's compileToJS returned

vars == <<code, position, tokens, ast, currentToken, errors, warnings, js, spin,
         pc, caller, calls, result, output>>

----------------------------------------------------------------------------
(* Bounds of the model                                                     *)

\* longest source text given to a bare tokenize call
MaxLen == 4
\* how long the error list of a parser loop that never ends is followed
MaxSpin == 4
\* most pieces of a program compile is called with
MaxStmts == 3
\* most characters of such a program
MaxText == 14
\* most calls on one instance
MaxCalls == 2

----------------------------------------------------------------------------
(* Characters                                                              *)

Lower == {"a","b","c","d","e","f","g","h","i","j","k","l","m",
          "n","o","p","q","r","s","t","u","v","w","x","y","z"}
Upper == {"A","B","C","D","E","F","G","H","I","J","K","L","M",
          "N","O","P","Q","R","S","T","U","V","W","X","Y","Z"}
Digit == {"0","1","2","3","4","5","6","7","8","9"}
\* [a-zA-Z_]
Letter == Lower \cup Upper \cup {"_"}
\* \w, the class \b is defined by
WordChar == Letter \cup Digit
\* \s (the members a source of this model can hold)
Space == {" ", "\t", "\n", "\r"}
\* the characters `.` does not match and `$` (flag m) stops before
LineTerminator == {"\n", "\r"}
\* [+\-*/=<>!&|^%]
OpChar == {"+","-","*","/","=","<",">","!","&","|","^","%"}
\* [.,;()]
PunctChar == {".", ",", ";", "(", ")"}
\* [[\]{}]
BracketChar == {"[", "]", "{", "}"}

Null == [type |-> "Null"]
NoMatch == <<>>

\* the longest prefix of r made of characters of C
PrefixLen(r, C) ==
    CHOOSE k \in 0..Len(r) :
        /\ \A j \in 1..k : r[j] \in C
        /\ (k = Len(r) \/ r[k+1] \notin C)

\* r.slice(n)
Slice(r, n) == SubSeq(r, n + 1, Len(r))

\* r starts with w at index i (1-based)
HasAt(r, i, w) ==
    /\ i >= 1
    /\ i + Len(w) - 1 <= Len(r)
    /\ \A j \in 1..Len(w) : r[i + j - 1] = w[j]

\* the least member of a non-empty set of integers
Least(S) == CHOOSE i \in S : \A j \in S : i <= j

\* the words the parser, the analyser and the emitter compare lexemes with
w_var == <<"v","a","r">>
w_const == <<"c","o","n","s","t">>
w_let == <<"l","e","t">>
w_function == <<"f","u","n","c","t","i","o","n">>
w_if == <<"i","f">>
w_else == <<"e","l","s","e">>
w_for == <<"f","o","r">>
w_while == <<"w","h","i","l","e">>
w_do == <<"d","o">>
w_switch == <<"s","w","i","t","c","h">>
w_case == <<"c","a","s","e">>
w_default == <<"d","e","f","a","u","l","t">>
w_break == <<"b","r","e","a","k">>
w_continue == <<"c","o","n","t","i","n","u","e">>
w_return == <<"r","e","t","u","r","n">>
w_this == <<"t","h","i","s">>
w_true == <<"t","r","u","e">>
w_false == <<"f","a","l","s","e">>
w_null == <<"n","u","l","l">>
w_undefined == <<"u","n","d","e","f","i","n","e","d">>
w_vec2 == <<"v","e","c","2">>
w_vec3 == <<"v","e","c","3">>
w_create == <<"c","r","e","a","t","e">>
w_step == <<"s","t","e","p">>
w_draw == <<"d","r","a","w">>
w_on_collision == <<"o","n","_","c","o","l","l","i","s","i","o","n">>
w_keyboard_check == <<"k","e","y","b","o","a","r","d","_","c","h","e","c","k">>
w_keyboard_check_pressed == w_keyboard_check \o <<"_","p","r","e","s","s","e","d">>
w_keyboard_check_released == w_keyboard_check \o <<"_","r","e","l","e","a","s","e","d">>
w_draw_sprite == <<"d","r","a","w","_","s","p","r","i","t","e">>
w_draw_text == <<"d","r","a","w","_","t","e","x","t">>

predefinedVariables == {
    <<"p","o","s","i","t","i","o","n">>, <<"v","e","l","o","c","i","t","y">>,
    <<"s","i","z","e">>, <<"c","o","l","o","r">>,
    <<"r","o","t","a","t","i","o","n">>, <<"s","c","a","l","e">>,
    <<"v","i","s","i","b","l","e">>, <<"a","c","t","i","v","e">>,
    <<"t","a","g">>, <<"c","o","m","p","o","n","e","n","t","s">>,
    <<"G","R","A","V","I","T","Y">>, <<"F","R","I","C","T","I","O","N">>,
    <<"M","A","X","_","F","A","L","L","_","S","P","E","E","D">>,
    <<"d","e","l","t","a","_","t","i","m","e">>,
    <<"c","u","r","r","e","n","t","_","t","i","m","e">>, <<"g","a","m","e","_","t","i","m","e">> }

predefinedFunctions == {
    w_create, w_step, w_draw, w_on_collision,
    w_keyboard_check, w_keyboard_check_pressed, w_keyboard_check_released,
    <<"m","o","u","s","e","_","c","h","e","c","k">>,
    <<"m","o","u","s","e","_","c","h","e","c","k","_","p","r","e","s","s","e","d">>,
    <<"m","o","u","s","e","_","c","h","e","c","k","_","r","e","l","e","a","s","e","d">>,
    w_draw_sprite, w_draw_text,
    <<"d","r","a","w","_","r","e","c","t","a","n","g","l","e">>,
    <<"d","r","a","w","_","c","i","r","c","l","e">>,
    <<"d","r","a","w","_","l","i","n","e">>, <<"p","l","a","y","_","s","o","u","n","d">>,
    <<"p","l","a","y","_","m","u","s","i","c">>, <<"s","t","o","p","_","s","o","u","n","d">>,
    <<"s","t","o","p","_","m","u","s","i","c">>, w_vec2, w_vec3,
    <<"p","o","i","n","t","_","d","i","s","t","a","n","c","e">>,
    <<"c","h","e","c","k","_","c","o","l","l","i","s","i","o","n">>,
    <<"c","r","e","a","t","e","_","o","b","j","e","c","t">>,
    <<"d","e","s","t","r","o","y","_","o","b","j","e","c","t">>,
    <<"f","i","n","d","_","o","b","j","e","c","t">>,
    <<"f","i","n","d","_","n","e","a","r","e","s","t">> }

----------------------------------------------------------------------------
(* Numbers: a Literal node of a NUMBER token holds Number.parseFloat(text),*)
(* which the emitter prints with toString().  The model keeps a number as  *)
(* the text toString() gives for it (Number::toString of ECMA-262), which  *)
(* is exact for lexemes of at most 15 significant digits and exponents the *)
(* double range holds.                                                     *)

DigitChars == <<"0","1","2","3","4","5","6","7","8","9">>

DigitValue(c) == (CHOOSE i \in 1..10 : DigitChars[i] = c) - 1

RECURSIVE DigitsToInt(_)
DigitsToInt(ds) ==
    IF ds = <<>> THEN 0
    ELSE 10 * DigitsToInt(SubSeq(ds, 1, Len(ds) - 1)) + DigitValue(ds[Len(ds)])

RECURSIVE NatToChars(_)
NatToChars(n) ==
    IF n < 10 THEN <<DigitChars[n + 1]>>
    ELSE Append(NatToChars(n \div 10), DigitChars[(n % 10) + 1])

Zeros(n) == [i \in 1..n |-> "0"]

\* the number of trailing characters of ds that are "0"
TrailingZeros(ds) ==
    CHOOSE k \in 0..Len(ds) :
        /\ \A j \in 1..k : ds[Len(ds) + 1 - j] = "0"
        /\ (k = Len(ds) \/ ds[Len(ds) - k] # "0")

\* Number.parseFloat(lexeme).toString() for a lexeme of the NUMBER rule
NumberToString(lexeme) ==
    LET n1 == PrefixLen(lexeme, Digit)
        intDigits == SubSeq(lexeme, 1, n1)
        fracLen == IF HasAt(lexeme, n1 + 1, <<".">>)
                   THEN PrefixLen(Slice(lexeme, n1 + 1), Digit) ELSE 0
        fracDigits == SubSeq(lexeme, n1 + 2, n1 + 1 + fracLen)
        mantEnd == IF fracLen > 0 THEN n1 + 1 + fracLen ELSE n1
        hasExp == HasAt(lexeme, mantEnd + 1, <<"e">>)
        negExp == hasExp /\ HasAt(lexeme, mantEnd + 2, <<"-">>)
        expStart == IF hasExp /\ lexeme[mantEnd + 2] \in {"+", "-"}
                    THEN mantEnd + 3 ELSE mantEnd + 2
        expValue == IF ~hasExp THEN 0
                    ELSE LET v == DigitsToInt(SubSeq(lexeme, expStart, Len(lexeme)))
                         IN IF negExp THEN 0 - v ELSE v
        all == intDigits \o fracDigits
        lead == PrefixLen(all, {"0"})
        cut == Slice(all, lead)
        \* the significant digits s, their number k, and n with 10^(n-1) <= value < 10^n
        s == SubSeq(cut, 1, Len(cut) - TrailingZeros(cut))
        k == Len(s)
        n == Len(intDigits) + expValue - lead
        e == n - 1
        expText == IF e < 0 THEN <<"e", "-">> \o NatToChars(0 - e)
                   ELSE <<"e", "+">> \o NatToChars(e)
    IN IF k = 0 THEN <<"0">>
       ELSE IF k <= n /\ n <= 21 THEN s \o Zeros(n - k)
       ELSE IF 0 < n /\ n <= 21 THEN SubSeq(s, 1, n) \o <<".">> \o SubSeq(s, n + 1, k)
       ELSE IF -6 < n /\ n <= 0 THEN <<"0", ".">> \o Zeros(0 - n) \o s
       ELSE IF k = 1 THEN s \o expText
       ELSE SubSeq(s, 1, 1) \o <<".">> \o SubSeq(s, 2, k) \o expText

----------------------------------------------------------------------------
(* tokenize: the token rules, in the order of the tokenTypes array.  Each  *)
(* rule is the regular expression new RegExp("^" + source, flags) applied  *)
(* by String.match to `remaining`: the result is the matched text match[0],*)
(* or NoMatch.  The prefixed "^" binds to the first alternative of a       *)
(* pattern only, so the later alternatives of STRING, OPERATOR and COMMENT *)
(* are searched for at every index of `remaining`, leftmost first.         *)

KeywordWords == {
    <<"v","a","r">>, <<"c","o","n","s","t">>, <<"l","e","t">>,
    <<"f","u","n","c","t","i","o","n">>, <<"i","f">>, <<"e","l","s","e">>,
    <<"f","o","r">>, <<"w","h","i","l","e">>, <<"d","o">>,
    <<"s","w","i","t","c","h">>, <<"c","a","s","e">>, <<"b","r","e","a","k">>,
    <<"c","o","n","t","i","n","u","e">>, <<"r","e","t","u","r","n">>, <<"t","h","i","s">>,
    <<"n","e","w">>, <<"t","r","u","e">>, <<"f","a","l","s","e">>,
    <<"n","u","l","l">>, <<"u","n","d","e","f","i","n","e","d">> }

SaaamKeywordWords == {
    <<"v","e","c","2">>, <<"v","e","c","3">>, <<"y","i","e","l","d">>,
    <<"s","i","g","n","a","l">>, <<"s","t","a","t","e">>, <<"c","r","e","a","t","e">>,
    <<"s","t","e","p">>, <<"d","r","a","w">>, <<"o","n","_","c","o","l","l","i","s","i","o","n">> }

\* /\b(var|const|...)\b/ : the word at the start of r, when it is a keyword
MatchKeyword(r) ==
    LET w == SubSeq(r, 1, PrefixLen(r, WordChar))
    IN IF w \in KeywordWords THEN w ELSE NoMatch

\* /\b(vec2|vec3|...)\b/
MatchSaaamKeyword(r) ==
    LET w == SubSeq(r, 1, PrefixLen(r, WordChar))
    IN IF w \in SaaamKeywordWords THEN w ELSE NoMatch

\* /\b[a-zA-Z_][a-zA-Z0-9_]*\b/
MatchIdentifier(r) ==
    IF r # <<>> /\ r[1] \in Letter
    THEN SubSeq(r, 1, PrefixLen(r, WordChar))
    ELSE NoMatch

\* /\b\d+(\.\d+)?(e[+-]?\d+)?\b/ : the digits, then greedily the fraction and
\* the exponent; a group is given back when the final \b cannot hold with it
MatchNumber(r) ==
    LET n1 == PrefixLen(r, Digit)
        \* end of the optional group (\.\d+) starting after index n, or n
        Frac(n) == IF HasAt(r, n + 1, <<".">>) /\ PrefixLen(Slice(r, n + 1), Digit) > 0
                   THEN n + 1 + PrefixLen(Slice(r, n + 1), Digit) ELSE n
        \* end of the optional group (e[+-]?\d+) starting after index n, or n
        Exp(n) == LET s == IF HasAt(r, n + 1, <<"e">>) /\ n + 2 <= Len(r) /\ r[n + 2] \in {"+", "-"}
                           THEN n + 2 ELSE n + 1
                  IN IF HasAt(r, n + 1, <<"e">>) /\ PrefixLen(Slice(r, s), Digit) > 0
                     THEN s + PrefixLen(Slice(r, s), Digit) ELSE n
        \* \b after a word character at index n
        Boundary(n) == n = Len(r) \/ r[n + 1] \notin WordChar
        cands == << Exp(Frac(n1)), Frac(n1), Exp(n1), n1 >>
        ok == {i \in 1..4 : Boundary(cands[i])}
    IN IF n1 = 0 \/ ok = {} THEN NoMatch
       ELSE SubSeq(r, 1, cands[Least(ok)])

\* the index of the quote closing ([^q\\]|\\.)* scanned from index j, or 0
RECURSIVE StringEnd(_, _, _)
StringEnd(r, j, q) ==
    IF j > Len(r) THEN 0
    ELSE IF r[j] = q THEN j
    ELSE IF r[j] = "\\"
         THEN IF j + 1 <= Len(r) /\ r[j + 1] \notin LineTerminator
              THEN StringEnd(r, j + 2, q) ELSE 0
    ELSE StringEnd(r, j + 1, q)

\* /'([^'\\]|\\.)*'|"([^"\\]|\\.)*"/ : a single-quoted string at the start
\* of r, else the leftmost double-quoted string anywhere in r
MatchString(r) ==
    LET dq == {i \in 1..Len(r) : r[i] = "\"" /\ StringEnd(r, i + 1, "\"") > 0}
    IN IF r # <<>> /\ r[1] = "'" /\ StringEnd(r, 2, "'") > 0
       THEN SubSeq(r, 1, StringEnd(r, 2, "'"))
       ELSE IF dq # {}
       THEN SubSeq(r, Least(dq), StringEnd(r, Least(dq) + 1, "\""))
       ELSE NoMatch

\* /[+\-*/=<>!&|^%]=?|&&|\|\||[?:]|\.\.\./ : an operator character (with a
\* following "=") at the start of r, else the leftmost of && || ? : ...
\* anywhere in r
MatchOperator(r) ==
    LET At(i) == IF HasAt(r, i, <<"&","&">>) THEN <<"&","&">>
                 ELSE IF HasAt(r, i, <<"|","|">>) THEN <<"|","|">>
                 ELSE IF r[i] \in {"?", ":"} THEN <<r[i]>>
                 ELSE IF HasAt(r, i, <<".",".",".">>) THEN <<".",".",".">>
                 ELSE NoMatch
        hits == {i \in 1..Len(r) : At(i) # NoMatch}
    IN IF r # <<>> /\ r[1] \in OpChar
       THEN (IF HasAt(r, 2, <<"=">>) THEN SubSeq(r, 1, 2) ELSE SubSeq(r, 1, 1))
       ELSE IF hits # {} THEN At(Least(hits))
       ELSE NoMatch

\* /[.,;()]/
MatchPunctuation(r) ==
    IF r # <<>> /\ r[1] \in PunctChar THEN SubSeq(r, 1, 1) ELSE NoMatch

\* /[[\]{}]/
MatchBracket(r) ==
    IF r # <<>> /\ r[1] \in BracketChar THEN SubSeq(r, 1, 1) ELSE NoMatch

\* /\s+/
MatchWhitespace(r) == SubSeq(r, 1, PrefixLen(r, Space))

\* /\/\/.*$|\/\*[\s\S]*?\*\// with flag m: "//" at the start of any line of
\* r up to the end of that line, or a block comment anywhere in r; leftmost
MatchComment(r) ==
    LET LineStart(i) == i = 1 \/ r[i - 1] \in LineTerminator
        \* the index of the last character of the line that holds index i
        LineEnd(i) == Least({j \in i..Len(r) : j = Len(r) \/ r[j + 1] \in LineTerminator})
        Closers(i) == {j \in (i + 2)..Len(r) : HasAt(r, j, <<"*","/">>)}
        At(i) == IF LineStart(i) /\ HasAt(r, i, <<"/","/">>)
                 THEN SubSeq(r, i, LineEnd(i))
                 ELSE IF HasAt(r, i, <<"/","*">>) /\ Closers(i) # {}
                 THEN SubSeq(r, i, Least(Closers(i)) + 1)
                 ELSE NoMatch
        hits == {i \in 1..Len(r) : At(i) # NoMatch}
    IN IF hits # {} THEN At(Least(hits)) ELSE NoMatch

\* the tokenTypes array: the type and the ignore flag of each rule
tokenTypes == <<
    [type |-> "KEYWORD",       ignore |-> FALSE],
    [type |-> "SAAAM_KEYWORD", ignore |-> FALSE],
    [type |-> "IDENTIFIER",    ignore |-> FALSE],
    [type |-> "NUMBER",        ignore |-> FALSE],
    [type |-> "STRING",        ignore |-> FALSE],
    [type |-> "OPERATOR",      ignore |-> FALSE],
    [type |-> "PUNCTUATION",   ignore |-> FALSE],
    [type |-> "BRACKET",       ignore |-> FALSE],
    [type |-> "WHITESPACE",    ignore |-> TRUE],
    [type |-> "COMMENT",       ignore |-> TRUE] >>

\* remaining.match(regex) for rule k of tokenTypes
RuleMatch(k, r) ==
    CASE k = 1 -> MatchKeyword(r)
      [] k = 2 -> MatchSaaamKeyword(r)
      [] k = 3 -> MatchIdentifier(r)
      [] k = 4 -> MatchNumber(r)
      [] k = 5 -> MatchString(r)
      [] k = 6 -> MatchOperator(r)
      [] k = 7 -> MatchPunctuation(r)
      [] k = 8 -> MatchBracket(r)
      [] k = 9 -> MatchWhitespace(r)
      [] k = 10 -> MatchComment(r)

\* the for loop over tokenTypes: the index of the first rule that matches, or 0
FirstMatch(r) ==
    LET hits == {k \in 1..Len(tokenTypes) : RuleMatch(k, r) # NoMatch}
    IN IF hits = {} THEN 0 ELSE Least(hits)

\* a token type as it prints in a message
TypeText(type) ==
    CASE type = "KEYWORD" -> <<"K","E","Y","W","O","R","D">>
      [] type = "SAAAM_KEYWORD" -> <<"S","A","A","A","M","_","K","E","Y","W","O","R","D">>
      [] type = "IDENTIFIER" -> <<"I","D","E","N","T","I","F","I","E","R">>
      [] type = "NUMBER" -> <<"N","U","M","B","E","R">>
      [] type = "STRING" -> <<"S","T","R","I","N","G">>
      [] type = "OPERATOR" -> <<"O","P","E","R","A","T","O","R">>
      [] type = "PUNCTUATION" -> <<"P","U","N","C","T","U","A","T","I","O","N">>
      [] type = "BRACKET" -> <<"B","R","A","C","K","E","T">>
      [] type = "EOF" -> <<"E","O","F">>
      [] OTHER -> <<"u","n","d","e","f","i","n","e","d">>

\* a faulty Token: the offset where the lexeme ends
Token_EndOffset(t, v, p) == [type |-> t, value |-> v, position |-> p + Len(v)]

Token(t, v, p) == [type |-> t, value |-> v, position |-> p]

\* one iteration of tokenize's while loop at `pos` of source `src`, from the
\* token list toks and the error list errs
\* a faulty TokenizeIteration: a token for the character no rule matches
TokenizeIteration_ErrorToken(src, pos, toks, errs) ==
    LET remaining == Slice(src, pos)
        k == FirstMatch(remaining)
        tokenValue == RuleMatch(k, remaining)
    IN IF k = 0
       THEN [position |-> pos + 1,
             tokens |-> Append(toks, Token("UNKNOWN", SubSeq(remaining, 1, 1), pos)),
             errors |-> Append(errs, <<"U","n","e","x","p","e","c","t","e","d"," ","c","h","a","r","a","c","t","e","r"," ","a","t"," ","p","o","s","i","t","i","o","n"," ">> \o NatToChars(pos) \o <<":"," ","'">> \o SubSeq(remaining, 1, 1) \o <<"'">>)]
       ELSE [position |-> pos + Len(tokenValue),
             tokens |-> IF tokenTypes[k].ignore THEN toks ELSE Append(toks, Token(tokenTypes[k].type, tokenValue, pos)),
             errors |-> errs]

TokenizeIteration(src, pos, toks, errs) ==
    LET remaining == Slice(src, pos)
        k == FirstMatch(remaining)
        tokenValue == RuleMatch(k, remaining)
    IN IF k = 0
       THEN [position |-> pos + 1,
             tokens   |-> toks,
             errors   |-> Append(errs, <<"U","n","e","x","p","e","c","t","e","d"," ","c","h","a","r","a","c","t","e","r"," ","a","t"," ","p","o","s","i","t","i","o","n"," ">>
                                \o NatToChars(pos) \o <<":"," ","'">>
                                \o SubSeq(remaining, 1, 1) \o <<"'">>)]
       ELSE [position |-> pos + Len(tokenValue),
             tokens   |-> IF tokenTypes[k].ignore THEN toks
                          ELSE Append(toks, Token(tokenTypes[k].type, tokenValue, pos)),
             errors   |-> errs]

\* a faulty EOFToken: the offset of the last character
EOFToken_LastChar(src) == Token("EOF", <<>>, Len(src) - 1)

\* the EOF token tokenize adds after the loop
EOFToken(src) == Token("EOF", <<>>, Len(src))

----------------------------------------------------------------------------
(* The parser.  Every parse function takes the parser's state p and gives  *)
(* [node |-> the node it returns, p |-> the state it leaves].  p holds the *)
(* token list, the cursor (this.currentToken), the two diagnostic lists,   *)
(* and how control leaves the function:                                    *)
(*   status "ok"      it returned;                                         *)
(*   status "thrown"  an Error with message exc is propagating: nothing    *)
(*                    runs until a catch takes it, and node is not used;   *)
(*   status "spin"    a loop repeats an iteration that changes neither the *)
(*                    cursor nor its own condition: control never leaves   *)
(*                    (exc holds the error each repetition records).       *)
(* p.discarded is a history field, with no counterpart in the code: the    *)
(* number of tokens that were consumed and left no node in the tree, that  *)
(* is, those a recovery path passed over and those of a statement whose    *)
(* parse was abandoned.                                                    *)

ParserState(toks, cur, errs, warns) ==
    [toks |-> toks, cur |-> cur, errors |-> errs, warnings |-> warns,
     status |-> "ok", exc |-> <<>>, discarded |-> 0]

Running(p) == p.status = "ok"

Ret(n, q) == [node |-> n, p |-> q]

addError(p, m) == IF Running(p) THEN [p EXCEPT !.errors = Append(@, m)] ELSE p

addWarning(p, m) == IF Running(p) THEN [p EXCEPT !.warnings = Append(@, m)] ELSE p

\* throw new Error(m)
Throw(p, m) == IF Running(p) THEN [p EXCEPT !.status = "thrown", !.exc = m] ELSE p

\* the end of a loop iteration that began in state p0 and did not leave the
\* loop: with the cursor where it was, the iteration repeats forever
Iterated(p0, q, m) ==
    IF Running(q) /\ q.cur = p0.cur
    THEN [q EXCEPT !.status = "spin", !.exc = m] ELSE q

\* this.tokens[this.currentToken]
peek(p) ==
    IF p.cur < Len(p.toks) THEN p.toks[p.cur + 1]
    ELSE Token("undefined", <<>>, -1)

\* match(type)
matchType(p, type) == Running(p) /\ peek(p).type = type

\* match(type, value)
match(p, type, value) ==
    Running(p) /\ peek(p).type = type /\ peek(p).value = value

\* consume()
consume(p) ==
    [token |-> peek(p), p |-> IF Running(p) THEN [p EXCEPT !.cur = @ + 1] ELSE p]

\* consume() where a recovery path passes over the token
discard(p) ==
    LET c == consume(p)
    IN [c EXCEPT !.p.discarded = IF Running(p) THEN @ + 1 ELSE @]

\* consume(type)
consumeType(p, type) ==
    LET token == peek(p)
        m == <<"E","x","p","e","c","t","e","d"," ","t","o","k","e","n"," ","o","f"," ","t","y","p","e"," ">> \o TypeText(type)
             \o <<","," ","b","u","t"," ","g","o","t"," ">> \o TypeText(token.type)
    IN IF ~Running(p) THEN [token |-> token, p |-> p]
       ELSE IF token.type # type THEN [token |-> token, p |-> Throw(addError(p, m), m)]
       ELSE [token |-> token, p |-> [p EXCEPT !.cur = @ + 1]]

\* consume(type, value)
consumeValue(p, type, value) ==
    LET token == peek(p)
        mt == <<"E","x","p","e","c","t","e","d"," ","t","o","k","e","n"," ","o","f"," ","t","y","p","e"," ">> \o TypeText(type)
              \o <<","," ","b","u","t"," ","g","o","t"," ">> \o TypeText(token.type)
        mv == <<"E","x","p","e","c","t","e","d"," ","t","o","k","e","n"," ","w","i","t","h"," ","v","a","l","u","e"," ">> \o value
              \o <<","," ","b","u","t"," ","g","o","t"," ">> \o token.value
    IN IF ~Running(p) THEN [token |-> token, p |-> p]
       ELSE IF token.type # type THEN [token |-> token, p |-> Throw(addError(p, mt), mt)]
       ELSE IF token.value # value THEN [token |-> token, p |-> Throw(addError(p, mv), mv)]
       ELSE [token |-> token, p |-> [p EXCEPT !.cur = @ + 1]]

\* match("KEYWORD", "var") || match("KEYWORD", "const") || match("KEYWORD", "let")
matchDeclaration(p) ==
    \/ match(p, "KEYWORD", w_var)
    \/ match(p, "KEYWORD", w_const)
    \/ match(p, "KEYWORD", w_let)

RECURSIVE this(_, _, _)

RECURSIVE parseBlockLoop(_, _),
          parseParamsLoop(_, _),
          parseSwitchLoop(_, _, _),
          parseConsequentLoop(_, _, _),
          parseLogicalOrLoop(_, _),
          parseLogicalAndLoop(_, _),
          parseEqualityLoop(_, _),
          parseComparisonLoop(_, _),
          parseAdditiveLoop(_, _),
          parseMultiplicativeLoop(_, _),
          parseCallOrMemberLoop(_, _),
          parseArgsLoop(_, _),
          parseObjectLoop(_, _),
          parseArrayLoop(_, _)

parseVariableDeclaration(p) ==
    LET kind == consume(p)
        identifier == consumeType(kind.p, "IDENTIFIER")
        init == IF match(identifier.p, "OPERATOR", <<"=">>)
                THEN this("parseExpression", consume(identifier.p).p, <<>>)
                ELSE Ret(Null, identifier.p)
        q == IF match(init.p, "PUNCTUATION", <<";">>)
             THEN consume(init.p).p
             ELSE addWarning(init.p,
                      <<"M","i","s","s","i","n","g"," ","s","e","m","i","c","o","l","o","n"," ","a","f","t","e","r"," ","v","a","r","i","a","b","l","e"," ","d","e","c","l","a","r","a","t","i","o","n"," ","f","o","r"," ","'">>
                      \o identifier.token.value \o <<"'">>)
    IN Ret([type |-> "VariableDeclaration", kind |-> kind.token.value,
            identifier |-> identifier.token.value, init |-> init.node], q)

\* do { params.push(consume("IDENTIFIER").value) } while (match(",") && consume())
parseParamsLoop(p, params) ==
    LET param == consumeType(p, "IDENTIFIER")
        list == Append(params, param.token.value)
    IN IF match(param.p, "PUNCTUATION", <<",">>)
       THEN parseParamsLoop(consume(param.p).p, list)
       ELSE [list |-> list, p |-> param.p]

parseFunctionDefinition(p) ==
    LET p1 == consumeValue(p, "KEYWORD", w_function).p
        name == consumeType(p1, "IDENTIFIER")
        p2 == consumeValue(name.p, "PUNCTUATION", <<"(">>).p
        params == IF ~match(p2, "PUNCTUATION", <<")">>)
                  THEN parseParamsLoop(p2, <<>>)
                  ELSE [list |-> <<>>, p |-> p2]
        p3 == consumeValue(params.p, "PUNCTUATION", <<")">>).p
        body == this("parseBlock", p3, <<>>)
        n == name.token.value
        p4 == IF n = w_step /\ Len(params.list) = 0
              THEN addWarning(body.p, <<"T","h","e"," ","'","s","t","e","p","'"," ","f","u","n","c","t","i","o","n"," ","s","h","o","u","l","d"," ","h","a","v","e"," ","a"," ","'","d","e","l","t","a","T","i","m","e","'"," ","p","a","r","a","m","e","t","e","r"," ","f","o","r"," ","t","i","m","e","-","b","a","s","e","d"," ","m","o","v","e","m","e","n","t">>)
              ELSE body.p
        p5 == IF n = w_draw /\ Len(params.list) = 0
              THEN addWarning(p4, <<"T","h","e"," ","'","d","r","a","w","'"," ","f","u","n","c","t","i","o","n"," ","s","h","o","u","l","d"," ","h","a","v","e"," ","a"," ","'","c","t","x","'"," ","p","a","r","a","m","e","t","e","r"," ","f","o","r"," ","d","r","a","w","i","n","g"," ","c","o","n","t","e","x","t">>)
              ELSE p4
    IN Ret([type |-> "FunctionDefinition", name |-> n,
            params |-> params.list, body |-> body.node],
           IF n \in {w_create, w_step, w_draw, w_on_collision} THEN p5 ELSE body.p)

\* while (!match("BRACKET", "}") && peek().type !== "EOF") statements.push(parseStatement())
parseBlockLoop(p, statements) ==
    IF ~Running(p) \/ match(p, "BRACKET", <<"}">>) \/ peek(p).type = "EOF"
    THEN [list |-> statements, p |-> p]
    ELSE LET s == this("parseStatement", p, <<>>)
         IN parseBlockLoop(Iterated(p, s.p, <<>>), Append(statements, s.node))

parseBlock(p) ==
    LET p1 == consumeValue(p, "BRACKET", <<"{">>).p
        loop == parseBlockLoop(p1, <<>>)
        m == <<"U","n","e","x","p","e","c","t","e","d"," ","e","n","d"," ","o","f"," ","f","i","l","e">>
        p2 == IF Running(loop.p) /\ peek(loop.p).type = "EOF"
              THEN Throw(addError(loop.p, <<"U","n","e","x","p","e","c","t","e","d"," ","e","n","d"," ","o","f"," ","f","i","l","e",","," ","e","x","p","e","c","t","e","d"," ","'","}","'">>), m)
              ELSE consumeValue(loop.p, "BRACKET", <<"}">>).p
    IN Ret([type |-> "Block", statements |-> loop.list], p2)

parseStatement(p) ==
    IF ~Running(p) THEN Ret(Null, p)
    ELSE IF matchDeclaration(p) THEN this("parseVariableDeclaration", p, <<>>)
    ELSE IF match(p, "KEYWORD", w_if) THEN this("parseIfStatement", p, <<>>)
    ELSE IF match(p, "KEYWORD", w_for) THEN this("parseForLoop", p, <<>>)
    ELSE IF match(p, "KEYWORD", w_while) THEN this("parseWhileLoop", p, <<>>)
    ELSE IF match(p, "KEYWORD", w_do) THEN this("parseDoWhileLoop", p, <<>>)
    ELSE IF match(p, "KEYWORD", w_switch) THEN this("parseSwitchStatement", p, <<>>)
    ELSE IF match(p, "KEYWORD", w_return) THEN this("parseReturnStatement", p, <<>>)
    ELSE IF match(p, "KEYWORD", w_break) THEN this("parseBreakStatement", p, <<>>)
    ELSE IF match(p, "KEYWORD", w_continue) THEN this("parseContinueStatement", p, <<>>)
    ELSE IF match(p, "BRACKET", <<"{">>) THEN this("parseBlock", p, <<>>)
    ELSE IF match(p, "PUNCTUATION", <<";">>)
         THEN Ret([type |-> "EmptyStatement"], consume(p).p)
    ELSE LET expr == this("parseExpression", p, <<>>)
             q == IF match(expr.p, "PUNCTUATION", <<";">>)
                  THEN consume(expr.p).p
                  ELSE addWarning(expr.p, <<"M","i","s","s","i","n","g"," ","s","e","m","i","c","o","l","o","n"," ","a","f","t","e","r"," ","e","x","p","r","e","s","s","i","o","n">>)
         IN Ret([type |-> "ExpressionStatement", expression |-> expr.node], q)

parseIfStatement(p) ==
    LET p1 == consumeValue(p, "KEYWORD", w_if).p
        p2 == consumeValue(p1, "PUNCTUATION", <<"(">>).p
        condition == this("parseExpression", p2, <<>>)
        p3 == consumeValue(condition.p, "PUNCTUATION", <<")">>).p
        consequent == this("parseStatement", p3, <<>>)
        alternate == IF match(consequent.p, "KEYWORD", w_else)
                     THEN this("parseStatement", consume(consequent.p).p, <<>>)
                     ELSE Ret(Null, consequent.p)
    IN Ret([type |-> "IfStatement", condition |-> condition.node,
            consequent |-> consequent.node, alternate |-> alternate.node],
           alternate.p)

parseForLoop(p) ==
    LET p1 == consumeValue(p, "KEYWORD", w_for).p
        p2 == consumeValue(p1, "PUNCTUATION", <<"(">>).p
        init == IF ~match(p2, "PUNCTUATION", <<";">>)
                THEN IF matchDeclaration(p2)
                     THEN this("parseVariableDeclaration", p2, <<>>)
                     ELSE LET e == this("parseExpression", p2, <<>>)
                          IN Ret(e.node, consumeValue(e.p, "PUNCTUATION", <<";">>).p)
                ELSE Ret(Null, consumeValue(p2, "PUNCTUATION", <<";">>).p)
        condition == IF ~match(init.p, "PUNCTUATION", <<";">>)
                     THEN this("parseExpression", init.p, <<>>)
                     ELSE Ret([type |-> "Literal", kind |-> "boolean", value |-> w_true],
                              init.p)
        p3 == consumeValue(condition.p, "PUNCTUATION", <<";">>).p
        update == IF ~match(p3, "PUNCTUATION", <<")">>)
                  THEN this("parseExpression", p3, <<>>)
                  ELSE Ret(Null, p3)
        p4 == consumeValue(update.p, "PUNCTUATION", <<")">>).p
        body == this("parseStatement", p4, <<>>)
    IN Ret([type |-> "ForLoop", init |-> init.node, condition |-> condition.node,
            update |-> update.node, body |-> body.node], body.p)

parseWhileLoop(p) ==
    LET p1 == consumeValue(p, "KEYWORD", w_while).p
        p2 == consumeValue(p1, "PUNCTUATION", <<"(">>).p
        condition == this("parseExpression", p2, <<>>)
        p3 == consumeValue(condition.p, "PUNCTUATION", <<")">>).p
        body == this("parseStatement", p3, <<>>)
    IN Ret([type |-> "WhileLoop", condition |-> condition.node, body |-> body.node],
           body.p)

parseDoWhileLoop(p) ==
    LET p1 == consumeValue(p, "KEYWORD", w_do).p
        body == this("parseStatement", p1, <<>>)
        p2 == consumeValue(body.p, "KEYWORD", w_while).p
        p3 == consumeValue(p2, "PUNCTUATION", <<"(">>).p
        condition == this("parseExpression", p3, <<>>)
        p4 == consumeValue(condition.p, "PUNCTUATION", <<")">>).p
        p5 == IF match(p4, "PUNCTUATION", <<";">>)
              THEN consume(p4).p
              ELSE addWarning(p4, <<"M","i","s","s","i","n","g"," ","s","e","m","i","c","o","l","o","n"," ","a","f","t","e","r"," ","d","o","-","w","h","i","l","e"," ","s","t","a","t","e","m","e","n","t">>)
    IN Ret([type |-> "DoWhileLoop", body |-> body.node, condition |-> condition.node],
           p5)

\* the while loop that collects the statements of a case (stopAtDefault) or
\* of the default clause
parseConsequentLoop(p, consequent, stopAtDefault) ==
    IF \/ ~Running(p)
       \/ match(p, "KEYWORD", w_case)
       \/ (stopAtDefault /\ match(p, "KEYWORD", w_default))
       \/ match(p, "BRACKET", <<"}">>)
       \/ peek(p).type = "EOF"
    THEN [list |-> consequent, p |-> p]
    ELSE LET s == this("parseStatement", p, <<>>)
         IN parseConsequentLoop(Iterated(p, s.p, <<>>),
                                Append(consequent, s.node), stopAtDefault)

\* a faulty parseSwitchLoop: the skip of a token records no error
parseSwitchLoop_SilentSkip(p, cases, defaultCase) ==
    IF ~Running(p) \/ match(p, "BRACKET", <<"}">>) \/ peek(p).type = "EOF"
    THEN [cases |-> cases, defaultCase |-> defaultCase, p |-> p]
    ELSE IF match(p, "KEYWORD", w_case)
    THEN LET test == this("parseExpression", consume(p).p, <<>>)
             p1 == consumeValue(test.p, "PUNCTUATION", <<":">>).p
             body == parseConsequentLoop(p1, <<>>, TRUE)
         IN parseSwitchLoop(Iterated(p, body.p, <<>>),
                Append(cases, [type |-> "SwitchCase", test |-> test.node,
                               consequent |-> body.list]),
                defaultCase)
    ELSE IF match(p, "KEYWORD", w_default)
    THEN LET p1 == consumeValue(consume(p).p, "PUNCTUATION", <<":">>).p
             body == parseConsequentLoop(p1, <<>>, FALSE)
         IN parseSwitchLoop(Iterated(p, body.p, <<>>), cases,
                [type |-> "SwitchCase", test |-> Null, consequent |-> body.list])
    ELSE parseSwitchLoop(Iterated(p, discard(p).p, <<>>), cases, defaultCase)

\* while (!match("BRACKET", "}") && peek().type !== "EOF") { case | default | skip }
parseSwitchLoop(p, cases, defaultCase) ==
    IF ~Running(p) \/ match(p, "BRACKET", <<"}">>) \/ peek(p).type = "EOF"
    THEN [cases |-> cases, defaultCase |-> defaultCase, p |-> p]
    ELSE IF match(p, "KEYWORD", w_case)
    THEN LET test == this("parseExpression", consume(p).p, <<>>)
             p1 == consumeValue(test.p, "PUNCTUATION", <<":">>).p
             body == parseConsequentLoop(p1, <<>>, TRUE)
         IN parseSwitchLoop(Iterated(p, body.p, <<>>),
                Append(cases, [type |-> "SwitchCase", test |-> test.node,
                               consequent |-> body.list]),
                defaultCase)
    ELSE IF match(p, "KEYWORD", w_default)
    THEN LET p1 == consumeValue(consume(p).p, "PUNCTUATION", <<":">>).p
             body == parseConsequentLoop(p1, <<>>, FALSE)
         IN parseSwitchLoop(Iterated(p, body.p, <<>>), cases,
                [type |-> "SwitchCase", test |-> Null, consequent |-> body.list])
    ELSE LET m == <<"E","x","p","e","c","t","e","d"," ","'","c","a","s","e","'"," ","o","r"," ","'","d","e","f","a","u","l","t","'"," ","i","n"," ","s","w","i","t","c","h"," ","s","t","a","t","e","m","e","n","t">>
         IN parseSwitchLoop(Iterated(p, discard(addError(p, m)).p, m),
                            cases, defaultCase)

parseSwitchStatement(p) ==
    LET p1 == consumeValue(p, "KEYWORD", w_switch).p
        p2 == consumeValue(p1, "PUNCTUATION", <<"(">>).p
        discriminant == this("parseExpression", p2, <<>>)
        p3 == consumeValue(discriminant.p, "PUNCTUATION", <<")">>).p
        p4 == consumeValue(p3, "BRACKET", <<"{">>).p
        loop == parseSwitchLoop(p4, <<>>, Null)
        cases == IF loop.defaultCase # Null
                 THEN Append(loop.cases, loop.defaultCase) ELSE loop.cases
        p5 == consumeValue(loop.p, "BRACKET", <<"}">>).p
    IN Ret([type |-> "SwitchStatement", discriminant |-> discriminant.node,
            cases |-> cases], p5)

parseReturnStatement(p) ==
    LET p1 == consumeValue(p, "KEYWORD", w_return).p
        argument == IF ~match(p1, "PUNCTUATION", <<";">>) /\ ~match(p1, "BRACKET", <<"}">>)
                    THEN this("parseExpression", p1, <<>>)
                    ELSE Ret(Null, p1)
        q == IF match(argument.p, "PUNCTUATION", <<";">>)
             THEN consume(argument.p).p
             ELSE IF ~match(argument.p, "BRACKET", <<"}">>)
             THEN addWarning(argument.p, <<"M","i","s","s","i","n","g"," ","s","e","m","i","c","o","l","o","n"," ","a","f","t","e","r"," ","r","e","t","u","r","n"," ","s","t","a","t","e","m","e","n","t">>)
             ELSE argument.p
    IN Ret([type |-> "ReturnStatement", argument |-> argument.node], q)

parseBreakStatement(p) ==
    LET p1 == consumeValue(p, "KEYWORD", w_break).p
        q == IF match(p1, "PUNCTUATION", <<";">>)
             THEN consume(p1).p
             ELSE addWarning(p1, <<"M","i","s","s","i","n","g"," ","s","e","m","i","c","o","l","o","n"," ","a","f","t","e","r"," ","b","r","e","a","k"," ","s","t","a","t","e","m","e","n","t">>)
    IN Ret([type |-> "BreakStatement"], q)

parseContinueStatement(p) ==
    LET p1 == consumeValue(p, "KEYWORD", w_continue).p
        q == IF match(p1, "PUNCTUATION", <<";">>)
             THEN consume(p1).p
             ELSE addWarning(p1, <<"M","i","s","s","i","n","g"," ","s","e","m","i","c","o","l","o","n"," ","a","f","t","e","r"," ","c","o","n","t","i","n","u","e"," ","s","t","a","t","e","m","e","n","t">>)
    IN Ret([type |-> "ContinueStatement"], q)

parseExpression(p) == this("parseAssignment", p, <<>>)

\* parseAssignment with its right operand taken from parseLogicalOr
parseAssignment_RightNotNested(p) ==
    LET left == this("parseLogicalOr", p, <<>>)
    IN IF \/ match(left.p, "OPERATOR", <<"=">>)
          \/ match(left.p, "OPERATOR", <<"+","=">>)
          \/ match(left.p, "OPERATOR", <<"-","=">>)
          \/ match(left.p, "OPERATOR", <<"*","=">>)
          \/ match(left.p, "OPERATOR", <<"/","=">>)
          \/ match(left.p, "OPERATOR", <<"%","=">>)
       THEN LET operator == consume(left.p)
                right == this("parseLogicalOr", operator.p, <<>>)
            IN Ret([type |-> "AssignmentExpression", operator |-> operator.token.value,
                    left |-> left.node, right |-> right.node], right.p)
       ELSE left

parseAssignment(p) ==
    LET left == this("parseLogicalOr", p, <<>>)
    IN IF \/ match(left.p, "OPERATOR", <<"=">>)
          \/ match(left.p, "OPERATOR", <<"+","=">>)
          \/ match(left.p, "OPERATOR", <<"-","=">>)
          \/ match(left.p, "OPERATOR", <<"*","=">>)
          \/ match(left.p, "OPERATOR", <<"/","=">>)
          \/ match(left.p, "OPERATOR", <<"%","=">>)
       THEN LET operator == consume(left.p)
                right == this("parseAssignment", operator.p, <<>>)
            IN Ret([type |-> "AssignmentExpression", operator |-> operator.token.value,
                    left |-> left.node, right |-> right.node], right.p)
       ELSE left

\* the while loop of parseLogicalOr
parseLogicalOrLoop(p, left) ==
    IF match(p, "OPERATOR", <<"|","|">>)
    THEN LET operator == consume(p)
             right == this("parseLogicalAnd", operator.p, <<>>)
         IN parseLogicalOrLoop(right.p,
                [type |-> "BinaryExpression", operator |-> operator.token.value,
                 left |-> left, right |-> right.node])
    ELSE Ret(left, p)

parseLogicalOr(p) ==
    LET left == this("parseLogicalAnd", p, <<>>)
    IN parseLogicalOrLoop(left.p, left.node)

\* the while loop of parseLogicalAnd
parseLogicalAndLoop(p, left) ==
    IF match(p, "OPERATOR", <<"&","&">>)
    THEN LET operator == consume(p)
             right == this("parseEquality", operator.p, <<>>)
         IN parseLogicalAndLoop(right.p,
                [type |-> "BinaryExpression", operator |-> operator.token.value,
                 left |-> left, right |-> right.node])
    ELSE Ret(left, p)

parseLogicalAnd(p) ==
    LET left == this("parseEquality", p, <<>>)
    IN parseLogicalAndLoop(left.p, left.node)

\* the while loop of parseEquality
parseEqualityLoop(p, left) ==
    IF \/ match(p, "OPERATOR", <<"=","=">>)
       \/ match(p, "OPERATOR", <<"!","=">>)
    THEN LET operator == consume(p)
             right == this("parseComparison", operator.p, <<>>)
         IN parseEqualityLoop(right.p,
                [type |-> "BinaryExpression", operator |-> operator.token.value,
                 left |-> left, right |-> right.node])
    ELSE Ret(left, p)

parseEquality(p) ==
    LET left == this("parseComparison", p, <<>>)
    IN parseEqualityLoop(left.p, left.node)

\* the while loop of parseComparison
parseComparisonLoop(p, left) ==
    IF \/ match(p, "OPERATOR", <<">">>)
       \/ match(p, "OPERATOR", <<">","=">>)
       \/ match(p, "OPERATOR", <<"<">>)
       \/ match(p, "OPERATOR", <<"<","=">>)
    THEN LET operator == consume(p)
             right == this("parseAdditive", operator.p, <<>>)
         IN parseComparisonLoop(right.p,
                [type |-> "BinaryExpression", operator |-> operator.token.value,
                 left |-> left, right |-> right.node])
    ELSE Ret(left, p)

parseComparison(p) ==
    LET left == this("parseAdditive", p, <<>>)
    IN parseComparisonLoop(left.p, left.node)

\* the while loop of parseAdditive
parseAdditiveLoop(p, left) ==
    IF \/ match(p, "OPERATOR", <<"+">>)
       \/ match(p, "OPERATOR", <<"-">>)
    THEN LET operator == consume(p)
             right == this("parseMultiplicative", operator.p, <<>>)
         IN parseAdditiveLoop(right.p,
                [type |-> "BinaryExpression", operator |-> operator.token.value,
                 left |-> left, right |-> right.node])
    ELSE Ret(left, p)

parseAdditive(p) ==
    LET left == this("parseMultiplicative", p, <<>>)
    IN parseAdditiveLoop(left.p, left.node)

\* the while loop of parseMultiplicative
parseMultiplicativeLoop(p, left) ==
    IF \/ match(p, "OPERATOR", <<"*">>)
       \/ match(p, "OPERATOR", <<"/">>)
       \/ match(p, "OPERATOR", <<"%">>)
    THEN LET operator == consume(p)
             right == this("parseUnary", operator.p, <<>>)
         IN parseMultiplicativeLoop(right.p,
                [type |-> "BinaryExpression", operator |-> operator.token.value,
                 left |-> left, right |-> right.node])
    ELSE Ret(left, p)

parseMultiplicative(p) ==
    LET left == this("parseUnary", p, <<>>)
    IN parseMultiplicativeLoop(left.p, left.node)

parseUnary(p) ==
    IF \/ match(p, "OPERATOR", <<"-">>)
       \/ match(p, "OPERATOR", <<"!">>)
       \/ match(p, "OPERATOR", <<"+">>)
    THEN LET operator == consume(p)
             argument == this("parseUnary", operator.p, <<>>)
         IN Ret([type |-> "UnaryExpression", operator |-> operator.token.value,
                 argument |-> argument.node], argument.p)
    ELSE this("parseCallOrMember", p, <<>>)

\* the while (true) loop of parseCallOrMember
parseCallOrMemberLoop(p, expression) ==
    IF match(p, "PUNCTUATION", <<"(">>)
    THEN LET e == this("parseCallExpression", p, <<expression>>)
         IN parseCallOrMemberLoop(e.p, e.node)
    ELSE IF match(p, "PUNCTUATION", <<".">>)
    THEN LET e == this("parseMemberExpression", p, <<expression>>)
         IN parseCallOrMemberLoop(e.p, e.node)
    ELSE IF match(p, "BRACKET", <<"[">>)
    THEN LET e == this("parseIndexExpression", p, <<expression>>)
         IN parseCallOrMemberLoop(e.p, e.node)
    ELSE Ret(expression, p)

parseCallOrMember(p) ==
    LET expression == this("parsePrimary", p, <<>>)
    IN parseCallOrMemberLoop(expression.p, expression.node)

\* do { args.push(parseExpression()) } while (match(",") && consume())
parseArgsLoop(p, args) ==
    LET arg == this("parseExpression", p, <<>>)
        list == Append(args, arg.node)
    IN IF match(arg.p, "PUNCTUATION", <<",">>)
       THEN parseArgsLoop(consume(arg.p).p, list)
       ELSE [list |-> list, p |-> arg.p]

parseCallExpression(p, callee) ==
    LET p1 == consumeValue(p, "PUNCTUATION", <<"(">>).p
        args == IF ~match(p1, "PUNCTUATION", <<")">>)
                THEN parseArgsLoop(p1, <<>>)
                ELSE [list |-> <<>>, p |-> p1]
        p2 == consumeValue(args.p, "PUNCTUATION", <<")">>).p
        funcName == callee.name
        n == Len(args.list)
        p3 == IF funcName \in {w_keyboard_check, w_keyboard_check_pressed,
                               w_keyboard_check_released} /\ n # 1
              THEN addWarning(p2, funcName \o <<" ","e","x","p","e","c","t","s"," ","e","x","a","c","t","l","y"," ","1"," ","a","r","g","u","m","e","n","t"," ","(","k","e","y"," ","c","o","d","e",")">>)
              ELSE p2
        p4 == IF funcName = w_draw_sprite /\ n < 3
              THEN addWarning(p3, <<"d","r","a","w","_","s","p","r","i","t","e"," ","r","e","q","u","i","r","e","s"," ","a","t"," ","l","e","a","s","t"," ","3"," ","a","r","g","u","m","e","n","t","s"," ","(","s","p","r","i","t","e",","," ","x",","," ","y",")">>)
              ELSE p3
        p5 == IF funcName = w_draw_text /\ n < 3
              THEN addWarning(p4, <<"d","r","a","w","_","t","e","x","t"," ","r","e","q","u","i","r","e","s"," ","a","t"," ","l","e","a","s","t"," ","3"," ","a","r","g","u","m","e","n","t","s"," ","(","t","e","x","t",","," ","x",","," ","y",")">>)
              ELSE p4
    IN Ret([type |-> "CallExpression", callee |-> callee, arguments |-> args.list],
           IF callee.type = "Identifier" THEN p5 ELSE p2)

parseMemberExpression(p, object) ==
    LET p1 == consumeValue(p, "PUNCTUATION", <<".">>).p
        property == consumeType(p1, "IDENTIFIER")
    IN Ret([type |-> "MemberExpression", object |-> object,
            property |-> property.token.value, computed |-> FALSE], property.p)

parseIndexExpression(p, object) ==
    LET p1 == consumeValue(p, "BRACKET", <<"[">>).p
        property == this("parseExpression", p1, <<>>)
        p2 == consumeValue(property.p, "BRACKET", <<"]">>).p
    IN Ret([type |-> "MemberExpression", object |-> object,
            property |-> property.node, computed |-> TRUE], p2)

\* key.substring(1, key.length - 1)
StripQuotes(str) == SubSeq(str, 2, Len(str) - 1)

\* one iteration of the while loop of parseObjectLiteral, and the rest of the loop
parseObjectLoop(p, properties) ==
    IF ~Running(p) \/ match(p, "BRACKET", <<"}">>) \/ peek(p).type = "EOF"
    THEN [list |-> properties, p |-> p]
    ELSE LET computed == match(p, "BRACKET", <<"[">>)
             hasKey == computed \/ matchType(p, "IDENTIFIER") \/ matchType(p, "STRING")
             \* the property key: a node when computed, else the name
             key == IF computed
                    THEN LET e == this("parseExpression", consumeValue(p, "BRACKET", <<"[">>).p, <<>>)
                         IN Ret(e.node, consumeValue(e.p, "BRACKET", <<"]">>).p)
                    ELSE IF matchType(p, "IDENTIFIER")
                    THEN LET c == consumeType(p, "IDENTIFIER")
                         IN Ret([type |-> "Identifier", name |-> c.token.value], c.p)
                    ELSE LET c == consumeType(p, "STRING")
                         IN Ret([type |-> "Identifier", name |-> StripQuotes(c.token.value)],
                                c.p)
             noKey == <<"E","x","p","e","c","t","e","d"," ","p","r","o","p","e","r","t","y"," ","n","a","m","e"," ","i","n"," ","o","b","j","e","c","t"," ","l","i","t","e","r","a","l">>
             noColon == <<"E","x","p","e","c","t","e","d"," ","'",":","'"," ","a","f","t","e","r"," ","p","r","o","p","e","r","t","y"," ","n","a","m","e"," ","i","n"," ","o","b","j","e","c","t"," ","l","i","t","e","r","a","l">>
             Skip(q) == IF match(q, "PUNCTUATION", <<",">>) THEN discard(q).p ELSE q
             hasColon == match(key.p, "PUNCTUATION", <<":">>)
             value == IF hasColon
                      THEN this("parseExpression", consumeValue(key.p, "PUNCTUATION", <<":">>).p, <<>>)
                      ELSE Ret([type |-> "Identifier", name |-> key.node.name], key.p)
             property == [type |-> "Property", key |-> key.node,
                          value |-> value.node, computed |-> computed]
             q == IF match(value.p, "PUNCTUATION", <<",">>)
                  THEN consume(value.p).p
                  ELSE IF ~match(value.p, "BRACKET", <<"}">>)
                  THEN addWarning(value.p, <<"E","x","p","e","c","t","e","d"," ","'",",","'"," ","a","f","t","e","r"," ","p","r","o","p","e","r","t","y"," ","i","n"," ","o","b","j","e","c","t"," ","l","i","t","e","r","a","l">>)
                  ELSE value.p
         IN IF ~hasKey
            THEN parseObjectLoop(Iterated(p, Skip(addError(p, noKey)), noKey), properties)
            ELSE IF ~hasColon /\ computed
            THEN parseObjectLoop(Iterated(p, Skip(addError(key.p, noColon)), noColon),
                                 properties)
            ELSE parseObjectLoop(Iterated(p, q, <<>>), Append(properties, property))

parseObjectLiteral(p) ==
    LET p1 == consumeValue(p, "BRACKET", <<"{">>).p
        loop == parseObjectLoop(p1, <<>>)
        p2 == consumeValue(loop.p, "BRACKET", <<"}">>).p
    IN Ret([type |-> "ObjectExpression", properties |-> loop.list], p2)

\* the while loop of parseArrayLiteral
parseArrayLoop(p, elements) ==
    IF ~Running(p) \/ match(p, "BRACKET", <<"]">>) \/ peek(p).type = "EOF"
    THEN [list |-> elements, p |-> p]
    ELSE IF match(p, "PUNCTUATION", <<",">>)
    THEN parseArrayLoop(Iterated(p, consume(p).p, <<>>), Append(elements, Null))
    ELSE LET e == this("parseExpression", p, <<>>)
             q == IF match(e.p, "PUNCTUATION", <<",">>)
                  THEN consume(e.p).p
                  ELSE IF ~match(e.p, "BRACKET", <<"]">>)
                  THEN addWarning(e.p, <<"E","x","p","e","c","t","e","d"," ","'",",","'"," ","a","f","t","e","r"," ","a","r","r","a","y"," ","e","l","e","m","e","n","t">>)
                  ELSE e.p
         IN parseArrayLoop(Iterated(p, q, <<>>), Append(elements, e.node))

parseArrayLiteral(p) ==
    LET p1 == consumeValue(p, "BRACKET", <<"[">>).p
        loop == parseArrayLoop(p1, <<>>)
        p2 == consumeValue(loop.p, "BRACKET", <<"]">>).p
    IN Ret([type |-> "ArrayExpression", elements |-> loop.list], p2)

parsePrimary(p) ==
    IF ~Running(p) THEN Ret(Null, p)
    ELSE IF match(p, "KEYWORD", w_this)
    THEN Ret([type |-> "ThisExpression"], consume(p).p)
    ELSE IF match(p, "SAAAM_KEYWORD", w_vec2)
    THEN LET p1 == consumeValue(consume(p).p, "PUNCTUATION", <<"(">>).p
             x == this("parseExpression", p1, <<>>)
             y == this("parseExpression", consumeValue(x.p, "PUNCTUATION", <<",">>).p, <<>>)
         IN Ret([type |-> "Vec2Expression", x |-> x.node, y |-> y.node],
                consumeValue(y.p, "PUNCTUATION", <<")">>).p)
    ELSE IF match(p, "SAAAM_KEYWORD", w_vec3)
    THEN LET p1 == consumeValue(consume(p).p, "PUNCTUATION", <<"(">>).p
             x == this("parseExpression", p1, <<>>)
             y == this("parseExpression", consumeValue(x.p, "PUNCTUATION", <<",">>).p, <<>>)
             z == this("parseExpression", consumeValue(y.p, "PUNCTUATION", <<",">>).p, <<>>)
         IN Ret([type |-> "Vec3Expression", x |-> x.node, y |-> y.node, z |-> z.node],
                consumeValue(z.p, "PUNCTUATION", <<")">>).p)
    ELSE IF matchType(p, "IDENTIFIER")
    THEN LET identifier == consumeType(p, "IDENTIFIER")
             name == identifier.token.value
         IN Ret([type |-> "Identifier", name |-> name,
                 isPredefined |-> name \in predefinedVariables
                                  \/ name \in predefinedFunctions],
                identifier.p)
    ELSE IF matchType(p, "NUMBER")
    THEN LET c == consumeType(p, "NUMBER")
         IN Ret([type |-> "Literal", kind |-> "number",
                 value |-> NumberToString(c.token.value)], c.p)
    ELSE IF matchType(p, "STRING")
    THEN LET c == consumeType(p, "STRING")
         IN Ret([type |-> "Literal", kind |-> "string",
                 value |-> StripQuotes(c.token.value), raw |-> c.token.value], c.p)
    ELSE IF match(p, "KEYWORD", w_true)
    THEN Ret([type |-> "Literal", kind |-> "boolean", value |-> w_true], consume(p).p)
    ELSE IF match(p, "KEYWORD", w_false)
    THEN Ret([type |-> "Literal", kind |-> "boolean", value |-> w_false], consume(p).p)
    ELSE IF match(p, "KEYWORD", w_null)
    THEN Ret([type |-> "Literal", kind |-> "null", value |-> w_null], consume(p).p)
    ELSE IF match(p, "KEYWORD", w_undefined)
    THEN Ret([type |-> "Identifier", name |-> w_undefined], consume(p).p)
    ELSE IF match(p, "BRACKET", <<"{">>) THEN this("parseObjectLiteral", p, <<>>)
    ELSE IF match(p, "BRACKET", <<"[">>) THEN this("parseArrayLiteral", p, <<>>)
    ELSE IF match(p, "PUNCTUATION", <<"(">>)
    THEN LET expr == this("parseExpression", consume(p).p, <<>>)
         IN Ret(expr.node, consumeValue(expr.p, "PUNCTUATION", <<")">>).p)
    ELSE LET m == <<"U","n","e","x","p","e","c","t","e","d"," ","t","o","k","e","n",":"," ">> \o peek(p).value
         IN Ret(Null, Throw(addError(p, m), m))

\* the skip loop of parseProgram's catch: consume up to the next ";" or "}"
RECURSIVE skipToStatementEnd(_)
skipToStatementEnd(p) ==
    IF /\ ~match(p, "PUNCTUATION", <<";">>)
       /\ ~match(p, "BRACKET", <<"}">>)
       /\ peek(p).type # "EOF"
    THEN skipToStatementEnd(discard(p).p)
    ELSE p

\* the catch block of parseProgram, entered with the thrown state q
parseProgramCatch(q) ==
    LET p1 == addError([q EXCEPT !.status = "ok", !.exc = <<>>],
                       <<"P","a","r","s","e"," ","e","r","r","o","r",":"," ">> \o q.exc)
        p2 == skipToStatementEnd(p1)
    IN IF match(p2, "PUNCTUATION", <<";">>) \/ match(p2, "BRACKET", <<"}">>)
       THEN discard(p2).p
       ELSE p2

\* while (peek().type !== "EOF") { try { body.push(...) } catch { ... } }
RECURSIVE parseProgramLoop(_, _)
parseProgramLoop(p, body) ==
    IF ~Running(p) \/ peek(p).type = "EOF"
    THEN [list |-> body, p |-> p]
    ELSE LET s == IF matchDeclaration(p) THEN this("parseVariableDeclaration", p, <<>>)
                  ELSE IF match(p, "KEYWORD", w_function) THEN this("parseFunctionDefinition", p, <<>>)
                  ELSE this("parseStatement", p, <<>>)
         IN IF s.p.status = "thrown"
            THEN parseProgramLoop(
                     Iterated(p, parseProgramCatch(
                                     [s.p EXCEPT !.discarded = @ + (s.p.cur - p.cur)]), <<>>),
                     body)
            ELSE parseProgramLoop(Iterated(p, s.p, <<>>), Append(body, s.node))

\* a faulty parseProgram: the EOF token is consumed after the loop
parseProgram_ConsumesEOF(p) ==
    LET loop == parseProgramLoop(p, <<>>)
    IN Ret([type |-> "Program", body |-> loop.list], consume(loop.p).p)

parseProgram(p) ==
    LET loop == parseProgramLoop(p, <<>>)
    IN Ret([type |-> "Program", body |-> loop.list], loop.p)

\* this.method(args) in the parser state p.  The calls of one parse method
\* by another go through this operator.
this(method, p, args) ==
    CASE method = "parseStatement" -> parseStatement(p)
      [] method = "parseBlock" -> parseBlock(p)
      [] method = "parseVariableDeclaration" -> parseVariableDeclaration(p)
      [] method = "parseFunctionDefinition" -> parseFunctionDefinition(p)
      [] method = "parseIfStatement" -> parseIfStatement(p)
      [] method = "parseForLoop" -> parseForLoop(p)
      [] method = "parseWhileLoop" -> parseWhileLoop(p)
      [] method = "parseDoWhileLoop" -> parseDoWhileLoop(p)
      [] method = "parseSwitchStatement" -> parseSwitchStatement(p)
      [] method = "parseReturnStatement" -> parseReturnStatement(p)
      [] method = "parseBreakStatement" -> parseBreakStatement(p)
      [] method = "parseContinueStatement" -> parseContinueStatement(p)
      [] method = "parseExpression" -> parseExpression(p)
      [] method = "parseAssignment" -> parseAssignment(p)
      [] method = "parseLogicalOr" -> parseLogicalOr(p)
      [] method = "parseLogicalAnd" -> parseLogicalAnd(p)
      [] method = "parseEquality" -> parseEquality(p)
      [] method = "parseComparison" -> parseComparison(p)
      [] method = "parseAdditive" -> parseAdditive(p)
      [] method = "parseMultiplicative" -> parseMultiplicative(p)
      [] method = "parseUnary" -> parseUnary(p)
      [] method = "parseCallOrMember" -> parseCallOrMember(p)
      [] method = "parseCallExpression" -> parseCallExpression(p, args[1])
      [] method = "parseMemberExpression" -> parseMemberExpression(p, args[1])
      [] method = "parseIndexExpression" -> parseIndexExpression(p, args[1])
      [] method = "parseObjectLiteral" -> parseObjectLiteral(p)
      [] method = "parseArrayLiteral" -> parseArrayLiteral(p)
      [] method = "parsePrimary" -> parsePrimary(p)
      [] method = "parseProgram" -> parseProgram(p)

\* the catch block of parse(), for the result of parseProgram
parseCatch(program) ==
    IF program.p.status = "thrown"
    THEN Ret(Null, addError([program.p EXCEPT !.status = "ok", !.exc = <<>>],
                            <<"P","a","r","s","i","n","g"," ","e","r","r","o","r",":"," ">> \o program.p.exc))
    ELSE program

\* parse(): the node it returns and the state it leaves
parse(p) == parseCatch(this("parseProgram", [p EXCEPT !.cur = 0], <<>>))

----------------------------------------------------------------------------
(* analyzeCode.  variableUsage, a Map, is the sequence of its entries      *)
(* [name, declared, used] in insertion order; the walk threads             *)
(* a = [usage |-> the map, warnings |-> this.warnings].                    *)

\* the index of the entry of name in the map, or 0: variableUsage.has / get
UsageIndex(usage, name) ==
    LET hits == {i \in 1..Len(usage) : usage[i].name = name}
    IN IF hits = {} THEN 0 ELSE Least(hits)

\* variableUsage.set(name, {declared, used})
UsageSet(usage, name, declared, used) ==
    LET entry == [name |-> name, declared |-> declared, used |-> used]
        i == UsageIndex(usage, name)
    IN IF i = 0 THEN Append(usage, entry) ELSE [usage EXCEPT ![i] = entry]

\* the nodes among xs: the `item && typeof item === 'object' && item.type` test
Nodes(xs) == SelectSeq(xs, LAMBDA x : x # Null)

\* the default branch of visit: the values of the node's own properties that
\* are nodes, in the order the parser wrote the properties
Children(node) ==
    CASE node.type = "ExpressionStatement" -> <<node.expression>>
      [] node.type = "IfStatement" ->
             Nodes(<<node.condition, node.consequent, node.alternate>>)
      [] node.type = "ForLoop" ->
             Nodes(<<node.init, node.condition, node.update, node.body>>)
      [] node.type = "WhileLoop" -> <<node.condition, node.body>>
      [] node.type = "DoWhileLoop" -> <<node.body, node.condition>>
      [] node.type = "SwitchStatement" -> <<node.discriminant>> \o node.cases
      [] node.type = "SwitchCase" -> Nodes(<<node.test>>) \o node.consequent
      [] node.type = "ReturnStatement" -> Nodes(<<node.argument>>)
      [] node.type \in {"AssignmentExpression", "BinaryExpression"} ->
             <<node.left, node.right>>
      [] node.type = "UnaryExpression" -> <<node.argument>>
      [] node.type = "CallExpression" -> <<node.callee>> \o node.arguments
      [] node.type = "MemberExpression" ->
             IF node.computed THEN <<node.object, node.property>> ELSE <<node.object>>
      [] node.type = "ObjectExpression" -> node.properties
      [] node.type = "Property" -> <<node.key, node.value>>
      [] node.type = "ArrayExpression" -> Nodes(node.elements)
      [] node.type = "Vec2Expression" -> <<node.x, node.y>>
      [] node.type = "Vec3Expression" -> <<node.x, node.y, node.z>>
      [] OTHER -> <<>>

RECURSIVE visit(_, _), visitAll(_, _)

\* for (const child of nodes) visit(child)
visitAll(nodes, a) ==
    IF nodes = <<>> THEN a
    ELSE visitAll(Tail(nodes), visit(Head(nodes), a))

\* for (const param of node.params) variableUsage.set(param, {declared: true, used: false})
RECURSIVE declareParams(_, _)
declareParams(params, usage) ==
    IF params = <<>> THEN usage
    ELSE declareParams(Tail(params), UsageSet(usage, Head(params), TRUE, FALSE))

visit(node, a) ==
    CASE node.type = "VariableDeclaration" ->
             LET i == UsageIndex(a.usage, node.identifier)
                 m == <<"V","a","r","i","a","b","l","e"," ","'">> \o node.identifier \o <<"'"," ","i","s"," ","a","l","r","e","a","d","y"," ","d","e","c","l","a","r","e","d">>
                 a1 == IF i = 0
                       THEN [a EXCEPT !.usage = UsageSet(@, node.identifier, TRUE, FALSE)]
                       ELSE [usage |-> [a.usage EXCEPT ![i].declared = TRUE],
                             warnings |-> IF a.usage[i].declared
                                          THEN Append(a.warnings, m) ELSE a.warnings]
             IN IF node.init # Null THEN visit(node.init, a1) ELSE a1
      [] node.type = "FunctionDefinition" ->
             visit(node.body, [a EXCEPT !.usage = declareParams(node.params, @)])
      [] node.type = "Identifier" ->
             LET i == UsageIndex(a.usage, node.name)
             IN IF node.name \in predefinedVariables \/ node.name \in predefinedFunctions
                THEN a
                ELSE IF i # 0 THEN [a EXCEPT !.usage[i].used = TRUE]
                ELSE [a EXCEPT !.usage = UsageSet(@, node.name, FALSE, TRUE)]
      [] node.type = "Program" -> visitAll(node.body, a)
      [] node.type = "Block" -> visitAll(node.statements, a)
      [] OTHER -> visitAll(Children(node), a)

\* the loop over variableUsage.entries() after the walk
RECURSIVE checkUsage(_, _)
checkUsage(usage, warns) ==
    IF usage = <<>> THEN warns
    ELSE LET u == Head(usage)
             unused == <<"V","a","r","i","a","b","l","e"," ","'">> \o u.name \o <<"'"," ","i","s"," ","d","e","c","l","a","r","e","d"," ","b","u","t"," ","n","e","v","e","r"," ","u","s","e","d">>
             undeclared == <<"V","a","r","i","a","b","l","e"," ","'">> \o u.name \o <<"'"," ","i","s"," ","u","s","e","d"," ","b","u","t"," ","n","o","t"," ","d","e","c","l","a","r","e","d">>
             w1 == IF u.declared /\ ~u.used THEN Append(warns, unused) ELSE warns
             w2 == IF /\ ~u.declared /\ u.used
                      /\ u.name \notin predefinedVariables
                      /\ u.name \notin predefinedFunctions
                   THEN Append(w1, undeclared) ELSE w1
         IN checkUsage(Tail(usage), w2)

\* analyzeCode(): this.warnings after it, from the AST root and this.warnings
analyzeCode(root, warns) ==
    IF root = Null THEN warns
    ELSE LET a == visit(root, [usage |-> <<>>, warnings |-> warns])
         IN checkUsage(a.usage, a.warnings)

----------------------------------------------------------------------------
(* The emitter: generateNode gives the JavaScript text of a node           *)

\* xs.join(sep) for a sequence xs of texts
RECURSIVE Join(_, _)
Join(xs, sep) ==
    IF xs = <<>> THEN <<>>
    ELSE IF Len(xs) = 1 THEN xs[1]
    ELSE xs[1] \o sep \o Join(Tail(xs), sep)

\* text.replace(/c/g, by)
RECURSIVE ReplaceAll(_, _, _)
ReplaceAll(text, c, by) ==
    IF text = <<>> THEN <<>>
    ELSE (IF Head(text) = c THEN by ELSE <<Head(text)>>) \o ReplaceAll(Tail(text), c, by)

\* indent(code): two spaces before every line of code
indent(text) == <<" "," ">> \o ReplaceAll(text, "\n", <<"\n"," "," ">>)

\* the switch over node.name in the Identifier case: the names that are rewritten
IdentifierRewrites == <<
    <<<<"k","e","y","b","o","a","r","d","_","c","h","e","c","k">>, <<"S","A","A","A","M",".","k","e","y","b","o","a","r","d","C","h","e","c","k">>>>,
    <<<<"k","e","y","b","o","a","r","d","_","c","h","e","c","k","_","p","r","e","s","s","e","d">>, <<"S","A","A","A","M",".","k","e","y","b","o","a","r","d","C","h","e","c","k","P","r","e","s","s","e","d">>>>,
    <<<<"k","e","y","b","o","a","r","d","_","c","h","e","c","k","_","r","e","l","e","a","s","e","d">>, <<"S","A","A","A","M",".","k","e","y","b","o","a","r","d","C","h","e","c","k","R","e","l","e","a","s","e","d">>>>,
    <<<<"d","r","a","w","_","s","p","r","i","t","e">>, <<"S","A","A","A","M",".","d","r","a","w","S","p","r","i","t","e">>>>,
    <<<<"d","r","a","w","_","t","e","x","t">>, <<"S","A","A","A","M",".","d","r","a","w","T","e","x","t">>>>,
    <<<<"d","r","a","w","_","r","e","c","t","a","n","g","l","e">>, <<"S","A","A","A","M",".","d","r","a","w","R","e","c","t","a","n","g","l","e">>>>,
    <<<<"d","r","a","w","_","c","i","r","c","l","e">>, <<"S","A","A","A","M",".","d","r","a","w","C","i","r","c","l","e">>>>,
    <<<<"d","r","a","w","_","l","i","n","e">>, <<"S","A","A","A","M",".","d","r","a","w","L","i","n","e">>>>,
    <<<<"p","l","a","y","_","s","o","u","n","d">>, <<"S","A","A","A","M",".","p","l","a","y","S","o","u","n","d">>>>,
    <<<<"p","l","a","y","_","m","u","s","i","c">>, <<"S","A","A","A","M",".","p","l","a","y","M","u","s","i","c">>>>,
    <<<<"c","h","e","c","k","_","c","o","l","l","i","s","i","o","n">>, <<"S","A","A","A","M",".","c","h","e","c","k","C","o","l","l","i","s","i","o","n">>>>,
    <<<<"p","o","i","n","t","_","d","i","s","t","a","n","c","e">>, <<"S","A","A","A","M",".","p","o","i","n","t","D","i","s","t","a","n","c","e">>>>,
    <<<<"d","e","l","t","a","_","t","i","m","e">>, <<"S","A","A","A","M",".","d","e","l","t","a","T","i","m","e">>>>,
    <<<<"c","u","r","r","e","n","t","_","t","i","m","e">>, <<"S","A","A","A","M",".","c","u","r","r","e","n","t","T","i","m","e">>>>,
    <<<<"v","k","_","l","e","f","t">>, <<"S","A","A","A","M",".","v","k",".","l","e","f","t">>>>,
    <<<<"v","k","_","r","i","g","h","t">>, <<"S","A","A","A","M",".","v","k",".","r","i","g","h","t">>>>,
    <<<<"v","k","_","u","p">>, <<"S","A","A","A","M",".","v","k",".","u","p">>>>,
    <<<<"v","k","_","d","o","w","n">>, <<"S","A","A","A","M",".","v","k",".","d","o","w","n">>>>,
    <<<<"v","k","_","s","p","a","c","e">>, <<"S","A","A","A","M",".","v","k",".","s","p","a","c","e">>>>,
    <<<<"v","k","_","e","n","t","e","r">>, <<"S","A","A","A","M",".","v","k",".","e","n","t","e","r">>>>,
    <<<<"v","k","_","e","s","c","a","p","e">>, <<"S","A","A","A","M",".","v","k",".","e","s","c","a","p","e">>>>,
    <<<<"v","k","_","s","h","i","f","t">>, <<"S","A","A","A","M",".","v","k",".","s","h","i","f","t">>>> >>

generateIdentifier(name) ==
    LET hits == {i \in 1..Len(IdentifierRewrites) : IdentifierRewrites[i][1] = name}
    IN IF hits = {} THEN name ELSE IdentifierRewrites[Least(hits)][2]

\* a faulty generateVec2: the fields in the order y, x
generateVec2_YX(x, y) == <<"{"," ","y",":"," ">> \o y \o <<","," ","x",":"," ">> \o x \o <<" ","}">>

\* `{ x: ${x}, y: ${y} }` for the emitted texts x and y
generateVec2(x, y) == <<"{"," ","x",":"," ">> \o x \o <<","," ","y",":"," ">> \o y \o <<" ","}">>

\* `{ x: ${x}, y: ${y}, z: ${z} }`
generateVec3(x, y, z) == <<"{"," ","x",":"," ">> \o x \o <<","," ","y",":"," ">> \o y \o <<","," ","z",":"," ">> \o z \o <<" ","}">>

RECURSIVE generateNode(_), generateAll(_), generateCases(_), generateProperties(_),
          generateElements(_), generateConsequent(_)

\* nodes.map(n => generateNode(n))
generateAll(nodes) ==
    IF nodes = <<>> THEN <<>>
    ELSE <<generateNode(Head(nodes))>> \o generateAll(Tail(nodes))

\* the inner loop of the SwitchStatement case: the indented statements of a clause
generateConsequent(stmts) ==
    IF stmts = <<>> THEN <<>>
    ELSE indent(generateNode(Head(stmts))) \o <<"\n">> \o generateConsequent(Tail(stmts))

\* the outer loop of the SwitchStatement case
generateCases(cases) ==
    IF cases = <<>> THEN <<>>
    ELSE LET caseNode == Head(cases)
             label == IF caseNode.test = Null THEN <<"d","e","f","a","u","l","t",":","\n">>
                      ELSE <<"c","a","s","e"," ">> \o generateNode(caseNode.test) \o <<":","\n">>
         IN label \o generateConsequent(caseNode.consequent) \o generateCases(Tail(cases))

\* node.properties.map(prop => ...)
generateProperties(props) ==
    IF props = <<>> THEN <<>>
    ELSE LET prop == Head(props)
             key == IF prop.key.type = "Identifier" THEN prop.key.name
                    ELSE <<"\"">> \o prop.key.value \o <<"\"">>
             text == IF prop.computed
                     THEN <<"[">> \o generateNode(prop.key) \o <<"]",":"," ">> \o generateNode(prop.value)
                     ELSE key \o <<":"," ">> \o generateNode(prop.value)
         IN <<text>> \o generateProperties(Tail(props))

\* node.elements.map(element => element === null ? "" : generateNode(element))
generateElements(elements) ==
    IF elements = <<>> THEN <<>>
    ELSE <<IF Head(elements) = Null THEN <<>> ELSE generateNode(Head(elements))>>
         \o generateElements(Tail(elements))

\* generateNode(node).  The default branch also records a warning; no node
\* the parser builds reaches it, and the model gives its text only.
generateNode(node) ==
    CASE node.type = "Program" -> Join(generateAll(node.body), <<"\n">>)
      [] node.type = "VariableDeclaration" ->
             node.kind \o <<" ">> \o node.identifier
             \o (IF node.init # Null THEN <<" ","="," ">> \o generateNode(node.init) ELSE <<>>)
             \o <<";">>
      [] node.type = "FunctionDefinition" ->
             <<"f","u","n","c","t","i","o","n"," ">> \o node.name \o <<"(">> \o Join(node.params, <<","," ">>) \o <<")"," ">>
             \o generateNode(node.body)
      [] node.type = "Block" ->
             <<"{","\n">> \o indent(Join(generateAll(node.statements), <<"\n">>)) \o <<"\n","}">>
      [] node.type = "ExpressionStatement" -> generateNode(node.expression) \o <<";">>
      [] node.type = "IfStatement" ->
             <<"i","f"," ","(">> \o generateNode(node.condition) \o <<")"," ">> \o generateNode(node.consequent)
             \o (IF node.alternate # Null
                 THEN <<" ","e","l","s","e"," ">> \o generateNode(node.alternate) ELSE <<>>)
      [] node.type = "ForLoop" ->
             LET initStr == (IF node.init # Null THEN generateNode(node.init) ELSE <<>>)
                            \o (IF node.init # Null /\ node.init.type # "VariableDeclaration"
                                THEN <<";">> ELSE <<>>)
                 condStr == IF node.condition # Null THEN generateNode(node.condition)
                            ELSE <<"t","r","u","e">>
                 updateStr == IF node.update # Null THEN generateNode(node.update) ELSE <<>>
             IN <<"f","o","r"," ","(">> \o initStr \o <<" ">> \o condStr \o <<";"," ">> \o updateStr \o <<")"," ">>
                \o generateNode(node.body)
      [] node.type = "WhileLoop" ->
             <<"w","h","i","l","e"," ","(">> \o generateNode(node.condition) \o <<")"," ">> \o generateNode(node.body)
      [] node.type = "DoWhileLoop" ->
             <<"d","o"," ">> \o generateNode(node.body) \o <<" ","w","h","i","l","e"," ","(">>
             \o generateNode(node.condition) \o <<")",";">>
      [] node.type = "SwitchStatement" ->
             <<"s","w","i","t","c","h"," ","(">> \o generateNode(node.discriminant) \o <<")"," ","{","\n">>
             \o generateCases(node.cases) \o <<"}">>
      [] node.type = "ReturnStatement" ->
             IF node.argument # Null
             THEN <<"r","e","t","u","r","n"," ">> \o generateNode(node.argument) \o <<";">>
             ELSE <<"r","e","t","u","r","n",";">>
      [] node.type = "BreakStatement" -> <<"b","r","e","a","k",";">>
      [] node.type = "ContinueStatement" -> <<"c","o","n","t","i","n","u","e",";">>
      [] node.type = "EmptyStatement" -> <<";">>
      [] node.type \in {"AssignmentExpression", "BinaryExpression"} ->
             generateNode(node.left) \o <<" ">> \o node.operator \o <<" ">>
             \o generateNode(node.right)
      [] node.type = "UnaryExpression" -> node.operator \o generateNode(node.argument)
      [] node.type = "CallExpression" ->
             generateNode(node.callee) \o <<"(">>
             \o Join(generateAll(node.arguments), <<","," ">>) \o <<")">>
      [] node.type = "MemberExpression" ->
             IF node.computed
             THEN generateNode(node.object) \o <<"[">> \o generateNode(node.property) \o <<"]">>
             ELSE generateNode(node.object) \o <<".">> \o node.property
      [] node.type = "ThisExpression" -> <<"t","h","i","s">>
      [] node.type = "Vec2Expression" ->
             generateVec2(generateNode(node.x), generateNode(node.y))
      [] node.type = "Vec3Expression" ->
             generateVec3(generateNode(node.x), generateNode(node.y), generateNode(node.z))
      [] node.type = "ObjectExpression" ->
             IF Len(node.properties) = 0 THEN <<"{","}">>
             ELSE <<"{"," ">> \o Join(generateProperties(node.properties), <<","," ">>) \o <<" ","}">>
      [] node.type = "ArrayExpression" ->
             <<"[">> \o Join(generateElements(node.elements), <<","," ">>) \o <<"]">>
      [] node.type = "Identifier" -> generateIdentifier(node.name)
      [] node.type = "Literal" ->
             IF node.kind = "string"
             THEN <<"\"">> \o ReplaceAll(node.value, "\"", <<"\\","\"">>) \o <<"\"">>
             ELSE node.value
      [] OTHER -> <<"/","*"," ","U","n","k","n","o","w","n"," ","n","o","d","e"," ","t","y","p","e"," ","*","/">>

\* generate()
generate(root) ==
    IF root = Null THEN <<"/","/"," ","N","o"," ","A","S","T"," ","t","o"," ","g","e","n","e","r","a","t","e"," ","c","o","d","e"," ","f","r","o","m">>
    ELSE generateNode(root)

----------------------------------------------------------------------------
(* The compiler instance and the calls on it                               *)

\* the five fields of a new instance
NewInstance == [tokens |-> <<>>, ast |-> Null, currentToken |-> 0,
                errors |-> <<>>, warnings |-> <<>>]

\* a faulty reset: the errors of the call before stay
reset_KeepErrors == [tokens |-> <<>>, ast |-> Null, currentToken |-> 0,
                     errors |-> errors, warnings |-> <<>>]

\* reset(): the values the five fields get
reset == [tokens |-> <<>>, ast |-> Null, currentToken |-> 0,
          errors |-> <<>>, warnings |-> <<>>]

NoResult == [type |-> "NoResult"]
NoText == <<"<none>">>

\* the instance after construction; no call is running
Init ==
    /\ code = <<>>
    /\ position = 0
    /\ tokens = <<>>
    /\ ast = Null
    /\ currentToken = 0
    /\ errors = <<>>
    /\ warnings = <<>>
    /\ js = NoText
    /\ spin = <<>>
    /\ pc = "idle"
    /\ caller = "none"
    /\ calls = 0
    /\ result = NoResult
    /\ output = NoText

\* a call of the public method tokenize(code) on the new instance
tokenize(s) ==
    /\ pc = "idle"
    /\ code' = s
    /\ caller' = "tokenize"
    /\ calls' = calls + 1
    /\ tokens' = <<>>
    /\ position' = 0
    /\ pc' = "lex"
    /\ UNCHANGED <<ast, currentToken, errors, warnings, js, spin, result, output>>

\* one iteration of the while (remaining.length > 0) loop of tokenize
tokenizeLoop ==
    /\ pc = "lex"
    /\ position < Len(code)
    /\ LET it == TokenizeIteration(code, position, tokens, errors)
       IN /\ position' = it.position
          /\ tokens' = it.tokens
          /\ errors' = it.errors
    /\ UNCHANGED <<code, ast, currentToken, warnings, js, spin, pc, caller, calls, result, output>>

\* the loop ends: the EOF token is added and tokenize returns
tokenizeReturn ==
    /\ pc = "lex"
    /\ position >= Len(code)
    /\ tokens' = Append(tokens, EOFToken(code))
    /\ pc' = IF caller = "tokenize" THEN "lexed" ELSE "parse"
    /\ UNCHANGED <<code, position, ast, currentToken, errors, warnings, js, spin,
                   caller, calls, result, output>>

\* a call of compile(code) (by = "compile") or of compileToJS(code), which
\* calls compile, on an instance no call is running on: reset(), then
\* tokenize starts
compileCall(s, by) ==
    /\ pc \in {"idle", "done"}
    /\ calls < MaxCalls
    /\ code' = s
    /\ caller' = by
    /\ calls' = calls + 1
    /\ result' = NoResult
    /\ output' = NoText
    /\ tokens' = reset.tokens
    /\ ast' = reset.ast
    /\ currentToken' = reset.currentToken
    /\ errors' = reset.errors
    /\ warnings' = reset.warnings
    /\ position' = 0
    /\ js' = NoText
    /\ pc' = "lex"
    /\ UNCHANGED spin

compile(s) == compileCall(s, "compile")

compileToJS(s) == compileCall(s, "compileToJS")

\* this.ast = r.node for the result r of this.parse(); a parser loop that
\* never ends leaves the call in it
compileParsed(r) ==
    /\ currentToken' = r.p.cur
    /\ errors' = r.p.errors
    /\ warnings' = r.p.warnings
    /\ IF r.p.status = "spin"
       THEN /\ pc' = "spin"
            /\ spin' = r.p.exc
            /\ ast' = ast
       ELSE /\ pc' = "analyze"
            /\ spin' = spin
            /\ ast' = r.node

\* this.ast = this.parse(): the whole parse
compileParse ==
    /\ pc = "parse"
    /\ compileParsed(parse(ParserState(tokens, currentToken, errors, warnings)))
    /\ UNCHANGED <<code, position, tokens, js, caller, calls, result, output>>

\* one more repetition of a parser loop that never ends
spinLoop ==
    /\ pc = "spin"
    /\ Len(errors) < MaxSpin
    /\ errors' = Append(errors, spin)
    /\ UNCHANGED <<code, position, tokens, ast, currentToken, warnings, js, spin,
                   pc, caller, calls, result, output>>

\* this.analyzeCode(); this.optimizeCode()
compileAnalyze ==
    /\ pc = "analyze"
    /\ warnings' = analyzeCode(ast, warnings)
    /\ pc' = "generate"
    /\ UNCHANGED <<code, position, tokens, ast, currentToken, errors, js, spin,
                   caller, calls, result, output>>

\* const js = this.generate()
compileGenerate ==
    /\ pc = "generate"
    /\ js' = generate(ast)
    /\ pc' = "return"
    /\ UNCHANGED <<code, position, tokens, ast, currentToken, errors, warnings, spin,
                   caller, calls, result, output>>

\* a faulty CompileResult: success whenever there is an AST
CompileResult_AstOnly(errs, warns, root, text) ==
    [success |-> root # Null, js |-> text, errors |-> errs,
     warnings |-> warns, ast |-> root]

\* the object compile returns
CompileResult(errs, warns, root, text) ==
    [success |-> Len(errs) = 0, js |-> text, errors |-> errs,
     warnings |-> warns, ast |-> root]

\* return { success, js, errors, warnings, ast }
compileReturn ==
    /\ pc = "return"
    /\ result' = CompileResult(errors, warnings, ast, js)
    /\ pc' = IF caller = "compileToJS" THEN "wrap" ELSE "done"
    /\ UNCHANGED <<code, position, tokens, ast, currentToken, errors, warnings, js,
                   spin, caller, calls, output>>

\* the text compileToJS makes of the result of compile
WrapResult(res) ==
    IF ~res.success
    THEN <<"/","/"," ","C","o","m","p","i","l","a","t","i","o","n"," ","f","a","i","l","e","d"," ","w","i","t","h"," ","e","r","r","o","r","s",":","\n","/","/"," ">> \o Join(res.errors, <<"\n","/","/"," ">>)
    ELSE <<"\n","/","/"," ","C","o","m","p","i","l","e","d"," ","S","A","A","A","M"," ","c","o","d","e","\n","(","f","u","n","c","t","i","o","n","(","S","A","A","A","M",")"," ","{","\n">> \o indent(res.js)
         \o <<"\n","\n","/","/"," ","R","e","g","i","s","t","e","r"," ","l","i","f","e","c","y","c","l","e"," ","f","u","n","c","t","i","o","n","s"," ","w","i","t","h"," ","S","A","A","A","M"," ","e","n","g","i","n","e","\n">>
         \o <<"i","f"," ","(","t","y","p","e","o","f"," ","c","r","e","a","t","e"," ","=","=","="," ","'","f","u","n","c","t","i","o","n","'",")"," ","S","A","A","A","M",".","r","e","g","i","s","t","e","r","C","r","e","a","t","e","(","c","r","e","a","t","e",")",";","\n">>
         \o <<"i","f"," ","(","t","y","p","e","o","f"," ","s","t","e","p"," ","=","=","="," ","'","f","u","n","c","t","i","o","n","'",")"," ","S","A","A","A","M",".","r","e","g","i","s","t","e","r","S","t","e","p","(","s","t","e","p",")",";","\n">>
         \o <<"i","f"," ","(","t","y","p","e","o","f"," ","d","r","a","w"," ","=","=","="," ","'","f","u","n","c","t","i","o","n","'",")"," ","S","A","A","A","M",".","r","e","g","i","s","t","e","r","D","r","a","w","(","d","r","a","w",")",";","\n">>
         \o <<"i","f"," ","(","t","y","p","e","o","f"," ","o","n","_","c","o","l","l","i","s","i","o","n"," ","=","=","="," ","'","f","u","n","c","t","i","o","n","'",")"," ","S","A","A","A","M",".","r","e","g","i","s","t","e","r","C","o","l","l","i","s","i","o","n","(","o","n","_","c","o","l","l","i","s","i","o","n",")",";","\n">>
         \o <<"\n","}",")","(","S","A","A","A","M"," ","|","|"," ","{","}",")",";","\n">>

\* compileToJS returns
compileToJSReturn ==
    /\ pc = "wrap"
    /\ output' = WrapResult(result)
    /\ pc' = "done"
    /\ UNCHANGED <<code, position, tokens, ast, currentToken, errors, warnings, js,
                   spin, caller, calls, result>>

----------------------------------------------------------------------------
(* The tokenizer alone: tokenize(s) on a new instance, for every source s  *)
(* of at most MaxLen characters of LexAlphabet                             *)

LexAlphabet == {"a", "1", " ", "\n", ":", "\"", "/", "*", "@"}

StringsUpTo(A, n) == UNION {[1..k -> A] : k \in 0..n}

LexSources == StringsUpTo(LexAlphabet, MaxLen)

\* the reserved words of the language
ReservedWords == {
    <<"v","a","r">>, <<"c","o","n","s","t">>, <<"l","e","t">>, <<"f","u","n","c","t","i","o","n">>, <<"i","f">>, <<"e","l","s","e">>, <<"f","o","r">>, <<"w","h","i","l","e">>, <<"d","o">>,
    <<"s","w","i","t","c","h">>, <<"c","a","s","e">>, <<"d","e","f","a","u","l","t">>, <<"b","r","e","a","k">>, <<"c","o","n","t","i","n","u","e">>, <<"r","e","t","u","r","n">>, <<"t","h","i","s">>, <<"n","e","w">>,
    <<"t","r","u","e">>, <<"f","a","l","s","e">>, <<"n","u","l","l">>, <<"u","n","d","e","f","i","n","e","d">> }

\* each reserved word alone, and an identifier that begins with one
WordSources == ReservedWords \cup { <<"v","a","r","i","a","b","l","e">> }

NextLex ==
    \/ (pc = "idle" /\ \E s \in LexSources \cup WordSources : tokenize(s))
    \/ tokenizeLoop
    \/ tokenizeReturn

SpecLex == Init /\ [][NextLex]_vars

----------------------------------------------------------------------------
(* compile on a new instance, as a function of the source                  *)

RECURSIVE tokenizeFrom(_, _, _, _)
\* tokenize from `position` on: the rest of the loop, then the EOF token
tokenizeFrom(src, pos, toks, errs) ==
    IF pos >= Len(src)
    THEN [tokens |-> Append(toks, EOFToken(src)), errors |-> errs]
    ELSE LET it == TokenizeIteration(src, pos, toks, errs)
         IN tokenizeFrom(src, it.position, it.tokens, it.errors)

\* this.parse() of compile(s) on a new instance
ParseOf(s) ==
    LET lexed == tokenizeFrom(s, 0, NewInstance.tokens, NewInstance.errors)
    IN parse(ParserState(lexed.tokens, NewInstance.currentToken, lexed.errors,
                         NewInstance.warnings))

\* the object compile returns when this.parse() returned r; NoResult when
\* it never returns
CompileParsed(r) ==
    IF r.p.status = "spin" THEN NoResult
    ELSE CompileResult(r.p.errors, analyzeCode(r.node, r.p.warnings),
                       r.node, generate(r.node))

\* the object compile(s) returns on a new instance
CompileOf(s) == CompileParsed(ParseOf(s))

----------------------------------------------------------------------------
(* The sources compile is called with                                      *)

\* statements whose final `;` is optional, written without it
Statements == { <<"a">>, <<"(","b",")">>, <<"v","a","r"," ","c"," ","="," ","1">>, <<"r","e","t","u","r","n"," ","a">>, <<"r","e","t","u","r","n">>, <<"b","r","e","a","k">>, <<"c","o","n","t","i","n","u","e">> }

\* a statement with its `;`
Terminated(st) == st \o <<";">>

\* object literals in expression position
ObjectStatements == { <<"v","=","{","x","}",";">>, <<"v","=","{","x",":","x","}",";">> }

\* texts that are no statement
Defects == { <<")">>, <<"@">>, <<"v","=","{","1","}">> }

Pieces ==
    Statements \cup {Terminated(st) : st \in Statements}
        \cup ObjectStatements \cup Defects

SeqsUpTo(A, n) == UNION {[1..k -> A] : k \in 0..n}

RECURSIVE Text(_)
\* the source text of a sequence of pieces, one per line
Text(q) == IF q = <<>> THEN <<>> ELSE Head(q) \o <<"\n">> \o Text(Tail(q))

\* the programs of at most MaxStmts pieces and MaxText characters
ProgramSeqs == {q \in SeqsUpTo(Pieces, MaxStmts) : Len(Text(q)) <= MaxText}

Programs == {Text(q) : q \in ProgramSeqs}

\* a statement, one defect, a statement
DefectSeqs ==
    {<<Terminated(s1), d, Terminated(s2)>> :
        s1 \in {<<"a">>, <<"b","r","e","a","k">>}, d \in Defects, s2 \in {<<"a">>, <<"(","b",")">>, <<"b","r","e","a","k">>}}

DefectPrograms == {Text(q) : q \in DefectSeqs}

\* the text holds w as a whole word
HasWord(text, w) ==
    \E i \in 1..Len(text) :
        /\ HasAt(text, i, w)
        /\ i = 1 \/ text[i - 1] \notin WordChar
        /\ i + Len(w) > Len(text) \/ text[i + Len(w)] \notin WordChar

\* the text holds w
HasText(text, w) == \E i \in 1..Len(text) : HasAt(text, i, w)

\* the programs made of statements only, each with or without its `;`
OptionalSeqs ==
    {q \in ProgramSeqs :
        \A i \in DOMAIN q : q[i] \in Statements \cup {Terminated(st) : st \in Statements}}

\* the program q with every optional `;` written
Terminate(q) == [i \in DOMAIN q |-> IF q[i] \in Statements THEN Terminated(q[i]) ELSE q[i]]

\* the node parse makes of the one statement t
StatementOf(t) == ParseOf(t).node.body[1]

\* S4 of the specification; a function that returns directly before `}`;
\* a defect on the line of the statement after it
Scenarios == {
    <<"v","a","r"," ","a"," ","="," ","1","\n","v","a","r"," ","b"," ","="," ","2",";">>,
    <<"f","u","n","c","t","i","o","n"," ","f","(",")"," ","{"," ","r","e","t","u","r","n"," ","1"," ","}">>,
    <<"a",";"," ",")"," ","b",";">> }

\* S2 of the specification; a variable and a parameter that bear names of
\* the rewrite table of the emitter
RewriteScenarios == {
    <<"v","a","r"," ","v"," ","="," ","k","e","y","b","o","a","r","d","_","c","h","e","c","k","(","v","k","_","s","p","a","c","e",")",";">>,
    <<"v","a","r"," ","v","k","_","u","p"," ","="," ","1",";">>,
    <<"f","u","n","c","t","i","o","n"," ","f","(","d","e","l","t","a","_","t","i","m","e",")"," ","{"," ","r","e","t","u","r","n"," ","d","e","l","t","a","_","t","i","m","e",";"," ","}">> }

\* argument expressions: a number, a sum, a call with two arguments
ArgExprs == { <<"1">>, <<"2","+","3">>, <<"f","(","a",","," ","b",")">> }

\* the text generateNode makes of the argument expression e: a number as
\* it stands, a binary expression with its operator between blanks, a call
\* with its arguments joined by ", "
EmitOf(e) ==
    CASE e = <<"1">> -> <<"1">>
      [] e = <<"2","+","3">> -> <<"2"," ","+"," ","3">>
      [] e = <<"f","(","a",","," ","b",")">> -> <<"f","(","a",","," ","b",")">>

Vec2Text(a, b) == <<"v","a","r"," ","p"," ","="," ","v","e","c","2","(">> \o a \o <<","," ">> \o b \o <<")",";">>

Vec3Text(a, b, c) == <<"v","a","r"," ","p"," ","="," ","v","e","c","3","(">> \o a \o <<","," ">> \o b \o <<","," ">> \o c \o <<")",";">>

\* S3 of the specification among them
VectorScenarios ==
    {Vec2Text(a, b) : a, b \in ArgExprs}
        \cup {Vec3Text(a, b, c) : a, b, c \in ArgExprs}

\* S1 of the specification; one lifecycle function alone
LifecycleScenarios == {
    <<"f","u","n","c","t","i","o","n"," ","c","r","e","a","t","e","(",")","{"," ","}","\n","f","u","n","c","t","i","o","n"," ","s","t","e","p","(","d","t",")","{"," ","}","\n","f","u","n","c","t","i","o","n"," ","d","r","a","w","(","c","t","x",")","{"," ","}">>,
    <<"f","u","n","c","t","i","o","n"," ","o","n","_","c","o","l","l","i","s","i","o","n","(","o",")","{"," ","}">> }

\* the lifecycle names and the registration call of each
Lifecycle == <<
    [name |-> <<"c","r","e","a","t","e">>, call |-> <<"S","A","A","A","M",".","r","e","g","i","s","t","e","r","C","r","e","a","t","e","(","c","r","e","a","t","e",")">>],
    [name |-> <<"s","t","e","p">>, call |-> <<"S","A","A","A","M",".","r","e","g","i","s","t","e","r","S","t","e","p","(","s","t","e","p",")">>],
    [name |-> <<"d","r","a","w">>, call |-> <<"S","A","A","A","M",".","r","e","g","i","s","t","e","r","D","r","a","w","(","d","r","a","w",")">>],
    [name |-> <<"o","n","_","c","o","l","l","i","s","i","o","n">>, call |-> <<"S","A","A","A","M",".","r","e","g","i","s","t","e","r","C","o","l","l","i","s","i","o","n","(","o","n","_","c","o","l","l","i","s","i","o","n",")">>] >>

\* the source declares a function of that name
Declares(src, name) == HasText(src, <<"f","u","n","c","t","i","o","n"," ">> \o name \o <<"(">>)

\* S5 of the specification; a statement and a block that the input ends in
UnterminatedScenarios == {
    <<"f","u","n","c","t","i","o","n"," ","f","(",")","{"," ","v","a","r"," ","x"," ","="," ","1">>,
    <<"a",";","\n","{"," ","b",";">> }

\* the call f(1, ..., 1) with n arguments, as a statement
CallText(f, n) ==
    f \o <<"(">> \o Join([i \in 1..n |-> <<"1">>], <<","," ">>) \o <<")",";">>

\* the functions with an arity rule, the number of arguments tried
ArityFunctions == { <<"k","e","y","b","o","a","r","d","_","c","h","e","c","k">>, <<"k","e","y","b","o","a","r","d","_","c","h","e","c","k","_","r","e","l","e","a","s","e","d">>, <<"d","r","a","w","_","s","p","r","i","t","e">>, <<"d","r","a","w","_","t","e","x","t">> }

ArityCounts == 0..3

\* S6 of the specification and calls of each number of arguments
ArityScenarios ==
    { <<"d","r","a","w","_","s","p","r","i","t","e","(","\"","h","e","r","o","\"",")",";">> } \cup {CallText(f, n) : f \in ArityFunctions, n \in ArityCounts}

\* a and b joined by the operator op, with and without blanks
LogicalTexts(op) == { <<"a"," ">> \o op \o <<" ","b",";">>, <<"a">> \o op \o <<"b",";">> }

LogicalOperators == { <<"&","&">>, <<"|","|">> }

LogicalScenarios == UNION {LogicalTexts(op) : op \in LogicalOperators}

\* the operators of the expression ladder, tightest level first
LadderLevels ==
    << { <<"*">>, <<"/">>, <<"%">> },
       { <<"+">>, <<"-">> },
       { <<"<">>, <<">">>, <<"<","=">>, <<">","=">> },
       { <<"=","=">>, <<"!","=">> } >>

AssignmentOperators == { <<"=">>, <<"+","=">>, <<"-","=">>, <<"*","=">>, <<"/","=">>, <<"%","=">> }

\* the statement  a o1 b o2 c;
Chain(o1, o2) == <<"a"," ">> \o o1 \o <<" ","b"," ">> \o o2 \o <<" ","c",";">>

Ident(n) == [type |-> "Identifier", name |-> n, isPredefined |-> FALSE]

Binary(op, l, r) == [type |-> "BinaryExpression", operator |-> op, left |-> l, right |-> r]

Assignment(op, l, r) == [type |-> "AssignmentExpression", operator |-> op, left |-> l, right |-> r]

\* (a o1 b) o2 c   and   a o1 (b o2 c)
GroupLeft(o1, o2) == Binary(o2, Binary(o1, Ident(<<"a">>), Ident(<<"b">>)), Ident(<<"c">>))

GroupRight(o1, o2) == Binary(o1, Ident(<<"a">>), Binary(o2, Ident(<<"b">>), Ident(<<"c">>)))

\* a chain and the tree the ladder gives it: two operators of one
\* level, a tighter one on either side of a looser one of the next
\* level, two assignment operators
PrecedenceCases ==
    UNION {
        { [text |-> Chain(o1, o2), tree |-> GroupLeft(o1, o2)] :
            o1 \in LadderLevels[l], o2 \in LadderLevels[l] } : l \in 1..4 }
    \cup UNION {
        { [text |-> Chain(hi, lo), tree |-> GroupLeft(hi, lo)] :
            hi \in LadderLevels[l], lo \in LadderLevels[l + 1] } : l \in 1..3 }
    \cup UNION {
        { [text |-> Chain(lo, hi), tree |-> GroupRight(lo, hi)] :
            hi \in LadderLevels[l], lo \in LadderLevels[l + 1] } : l \in 1..3 }
    \cup { [text |-> Chain(o1, o2),
            tree |-> Assignment(o1, Ident(<<"a">>), Assignment(o2, Ident(<<"b">>), Ident(<<"c">>)))] :
            o1 \in AssignmentOperators, o2 \in AssignmentOperators }

PrecedenceScenarios == { c.text : c \in PrecedenceCases }

\* well-formed switch statements, each with the kinds of its clauses in
\* source order
SwitchCases ==
    { [text |-> <<"s","w","i","t","c","h"," ","(","a",")"," ","{"," ","c","a","s","e"," ","1",":"," ","b",";"," ","}">>, clauses |-> <<"case">>],
      [text |-> <<"s","w","i","t","c","h","(","a",")","{","c","a","s","e"," ","1",":","b",";","}">>, clauses |-> <<"case">>],
      [text |-> <<"s","w","i","t","c","h"," ","(","a",")"," ","{"," ","d","e","f","a","u","l","t",":"," ","b",";"," ","}">>, clauses |-> <<"default">>],
      [text |-> <<"s","w","i","t","c","h"," ","(","a",")"," ","{"," ","c","a","s","e"," ","1",":"," ","b",";"," ","d","e","f","a","u","l","t",":"," ","c",";"," ","}">>, clauses |-> <<"case", "default">>],
      [text |-> <<"s","w","i","t","c","h"," ","(","a",")"," ","{"," ","d","e","f","a","u","l","t",":"," ","c",";"," ","c","a","s","e"," ","1",":"," ","b",";"," ","}">>, clauses |-> <<"default", "case">>] }

SwitchScenarios == { c.text : c \in SwitchCases }

\* for loops whose header lacks the ';' after the init clause, the init
\* clause being an expression or a declaration
MissingInitSemicolon ==
    { <<"f","o","r"," ","(","i"," ","="," ","0"," ","i"," ","<"," ","3",";"," ","i",")"," ","b",";">> }
    \cup { <<"f","o","r"," ","(">> \o kind \o <<" ","i"," ","="," ","0"," ","i"," ","<"," ","3",";"," ","i",")"," ","b",";">> : kind \in { <<"v","a","r">>, <<"l","e","t">>, <<"c","o","n","s","t">> } }

\* programs that read a before the declaration of a
UseBeforeDeclaration == { <<"a",";"," ","v","a","r"," ","a"," ","="," ","1",";">>, <<"b"," ","="," ","a",";"," ","v","a","r"," ","a",";">> }

\* programs that use the name a in two scopes, each with a warning
\* about a and whether separate scopes would give it
ScopeCases ==
    { [text |-> <<"f","u","n","c","t","i","o","n"," ","f","(",")"," ","{"," ","v","a","r"," ","a",";"," ","}"," ","f","u","n","c","t","i","o","n"," ","g","(",")"," ","{"," ","v","a","r"," ","a",";"," ","}">>,
       warning |-> <<"V","a","r","i","a","b","l","e"," ","'","a","'"," ","i","s"," ","a","l","r","e","a","d","y"," ","d","e","c","l","a","r","e","d">>, given |-> FALSE],
      [text |-> <<"f","u","n","c","t","i","o","n"," ","f","(",")"," ","{"," ","v","a","r"," ","a",";"," ","}"," ","v","a","r"," ","a",";">>,
       warning |-> <<"V","a","r","i","a","b","l","e"," ","'","a","'"," ","i","s"," ","a","l","r","e","a","d","y"," ","d","e","c","l","a","r","e","d">>, given |-> FALSE],
      [text |-> <<"f","u","n","c","t","i","o","n"," ","f","(","a",")"," ","{"," ","a",";"," ","}"," ","a",";">>,
       warning |-> <<"V","a","r","i","a","b","l","e"," ","'","a","'"," ","i","s"," ","u","s","e","d"," ","b","u","t"," ","n","o","t"," ","d","e","c","l","a","r","e","d">>, given |-> TRUE],
      [text |-> <<"v","a","r"," ","a"," ","="," ","1",";"," ","f","u","n","c","t","i","o","n"," ","f","(","a",")"," ","{"," ","a",";"," ","}">>,
       warning |-> <<"V","a","r","i","a","b","l","e"," ","'","a","'"," ","i","s"," ","d","e","c","l","a","r","e","d"," ","b","u","t"," ","n","e","v","e","r"," ","u","s","e","d">>, given |-> TRUE] }

ScopeScenarios == { c.text : c \in ScopeCases }

\* expression statements with a parenthesised operand
GroupedScenarios == { <<"(","a"," ","+"," ","b",")"," ","*"," ","c",";">>, <<"a"," ","*"," ","(","b"," ","+"," ","c",")",";">>, <<"a"," ","-"," ","(","b"," ","-"," ","c",")",";">>, <<"-","(","-","a",")",";">> }

\* for loops over the forms of the init and update clauses
ForScenarios ==
    { <<"f","o","r"," ","(">> \o init \o <<";"," ","a",";"," ">> \o update \o <<")"," ","c",";">> :
        init \in { <<>>, <<"i"," ","="," ","0">>, <<"v","a","r"," ","i"," ","="," ","0">> }, update \in { <<>>, <<"b">> } }
    \cup { <<"f","o","r"," ","(",";",";",")"," ","c",";">> }

\* programs that bind a name of the rewrite table, as a variable, a
\* parameter or a function, and then use it
BindingCases ==
    { [text |-> <<"v","a","r"," ","d","e","l","t","a","_","t","i","m","e"," ","="," ","1",";"," ","x"," ","="," ","d","e","l","t","a","_","t","i","m","e",";">>, name |-> <<"d","e","l","t","a","_","t","i","m","e">>],
      [text |-> <<"f","u","n","c","t","i","o","n"," ","f","(","v","k","_","u","p",")"," ","{"," ","r","e","t","u","r","n"," ","v","k","_","u","p",";"," ","}">>, name |-> <<"v","k","_","u","p">>],
      [text |-> <<"f","u","n","c","t","i","o","n"," ","d","r","a","w","_","l","i","n","e","(",")"," ","{"," ","}"," ","d","r","a","w","_","l","i","n","e","(",")",";">>, name |-> <<"d","r","a","w","_","l","i","n","e">>] }

BindingScenarios == { c.text : c \in BindingCases }

\* programs that make the parser skip: a token that begins no clause of a
\* switch, a ',' where an object literal wants a property, a statement
\* abandoned at its second token
RecoveryScenarios == { <<"s","w","i","t","c","h"," ","(","a",")"," ","{"," ","b"," ","}">>, <<"v"," ","="," ","{",",","}",";">>, <<"a"," ","="," ",";"," ","b",";">> }

Sources == Programs \cup DefectPrograms \cup Scenarios \cup RewriteScenarios
            \cup VectorScenarios \cup LifecycleScenarios
            \cup UnterminatedScenarios \cup ArityScenarios \cup LogicalScenarios
            \cup PrecedenceScenarios \cup SwitchScenarios
            \cup MissingInitSemicolon \cup UseBeforeDeclaration
            \cup ScopeScenarios \cup GroupedScenarios \cup ForScenarios
            \cup BindingScenarios \cup RecoveryScenarios

\* the sources of a call on an instance that has compiled before
LaterSources == Scenarios \cup { <<>>, <<"v","=","{","x","}",";">>, <<"@">> }

Next ==
    \/ (pc = "idle" /\ \E s \in Sources : compile(s))
    \/ (pc = "idle" /\ \E s \in Sources : compileToJS(s))
    \/ (pc = "done" /\ \E s \in LaterSources : compile(s))
    \/ (pc = "done" /\ \E s \in LaterSources : compileToJS(s))
    \/ tokenizeLoop
    \/ tokenizeReturn
    \/ compileParse
    \/ spinLoop
    \/ compileAnalyze
    \/ compileGenerate
    \/ compileReturn
    \/ compileToJSReturn

Spec == Init /\ [][Next]_vars

----------------------------------------------------------------------------
(* Properties of tokenize, under SpecLex                                   *)

\* C2: for every source s, tokenize(s) terminates, and the token sequence
\* it returns holds exactly one EOF token, which is its last element and
\* has position Len(s).  Termination: every iteration of the loop moves
\* position forward, and never beyond Len(s).
C2_TokenizeEndsWithOneEOF ==
    /\ [](pc = "lexed" =>
            /\ Len(tokens) >= 1
            /\ tokens[Len(tokens)].type = "EOF"
            /\ tokens[Len(tokens)].position = Len(code)
            /\ \A i \in 1..(Len(tokens) - 1) : tokens[i].type # "EOF")
    /\ [][pc = "lex" /\ pc' = "lex" =>
            position < position' /\ position' <= Len(code)]_vars

\* a tokenize of a source of MaxLen characters has returned three tokens
\* and the EOF token
C2_Witness ==
    pc = "lexed" /\ Len(code) = MaxLen /\ Len(tokens) = 4

\* C3: for every source s, the positions of the tokens tokenize(s) returns,
\* the EOF token included, increase strictly along the sequence and lie in
\* 0..Len(s), and every token but EOF has a lexeme that is not empty.
C3_PositionsIncrease ==
    /\ \A i \in 1..Len(tokens) : tokens[i].position \in 0..Len(code)
    /\ \A i \in 1..(Len(tokens) - 1) : tokens[i].position < tokens[i + 1].position
    /\ \A i \in 1..Len(tokens) : tokens[i].type # "EOF" => tokens[i].value # <<>>

\* tokenize has returned a sequence whose last lexeme ends the source, and
\* one of whose tokens was found behind characters the lexer skipped
C3_Witness ==
    /\ pc = "lexed"
    /\ Len(tokens) >= 3
    /\ LET last == tokens[Len(tokens) - 1]
       IN last.position + Len(last.value) = Len(code)
    /\ \E i \in 1..(Len(tokens) - 1) :
            tokens[i].position + Len(tokens[i].value) < tokens[i + 1].position

\* the tokens toks, each n characters further
Shifted(toks, n) == [i \in DOMAIN toks |-> [toks[i] EXCEPT !.position = @ + n]]

C18_ReservedWordsAreKeywords ==
    pc = "lexed" =>
        /\ code \in ReservedWords =>
                tokens = <<Token("KEYWORD", code, 0), Token("EOF", <<>>, Len(code))>>
        /\ code = <<"v","a","r","i","a","b","l","e">> =>
                tokens = <<Token("IDENTIFIER", code, 0), Token("EOF", <<>>, Len(code))>>

\* the kinds and the lexemes of the tokens toks
Lexemes(toks) == [i \in DOMAIN toks |-> <<toks[i].type, toks[i].value>>]

\* the characters i..j of src are a comment: "//" up to the end of its line,
\* or "/*" up to the first "*/"; before it stands no quote and no comment
IsComment(src, i, j) ==
    /\ \A h \in 1..(i - 1) : src[h] \notin {"\"", "'", "/"}
    /\ \/ /\ HasAt(src, i, <<"/","/">>)
          /\ i + 1 <= j
          /\ \A h \in i..j : src[h] \notin LineTerminator
          /\ j = Len(src) \/ src[j + 1] \in LineTerminator
       \/ /\ HasAt(src, i, <<"/","*">>)
          /\ i + 3 <= j
          /\ HasAt(src, j - 1, <<"*","/">>)
          /\ \A h \in (i + 2)..(j - 2) : ~HasAt(src, h, <<"*","/">>)

\* C19: line comments and block comments are skipped: a source with a
\* comment gives tokens of the kinds and lexemes of the source without it.
C19_CommentsSkipped ==
    pc = "lexed" =>
        \A i, j \in 1..Len(code) : IsComment(code, i, j) =>
            Lexemes(tokens)
                = Lexemes(tokenizeFrom(SubSeq(code, 1, i - 1) \o SubSeq(code, j + 1, Len(code)),
                                       0, <<>>, <<>>).tokens)

----------------------------------------------------------------------------
(* Properties of compile and compileToJS, under Spec                       *)

\* C1: for every source, compile returns after finitely many steps: no loop
\* of tokenize, parseProgram, parseBlock, parseSwitchStatement,
\* parseObjectLiteral or parseArrayLiteral repeats without consuming a token
\* or leaving the loop, so no call is ever in a repetition that does neither.
C1_EveryLoopMakesProgress == pc # "spin"

\* C4: compile is deterministic and independent of the calls made before on
\* the instance: a call that returns has the result (output text, errors,
\* warnings, AST) of compile of the same source on a new instance, and so
\* has compileToJS its text; every call starts with tokens, AST, cursor,
\* errors and warnings cleared.
C4_HistoryIndependent ==
    /\ [](pc = "done" =>
            /\ result = CompileOf(code)
            /\ caller = "compileToJS" => output = WrapResult(CompileOf(code)))
    /\ [][(pc' = "lex" /\ pc \in {"idle", "done"} /\ caller' # "tokenize") =>
            (tokens' = <<>> /\ ast' = Null /\ currentToken' = 0
                /\ errors' = <<>> /\ warnings' = <<>>)]_vars

\* a second call on the instance has returned, with errors and warnings
C4_Witness ==
    /\ pc = "done"
    /\ calls >= 2
    /\ result.errors # <<>>
    /\ result.warnings # <<>>

\* C5: the result of compile has success = TRUE if and only if the compile
\* recorded no error and the AST it returns is not null.
C5_SuccessIffNoErrorAndAst ==
    pc = "done" => (result.success <=> (errors = <<>> /\ result.ast # Null))

\* compile has returned without success an AST that holds a statement
C5_Witness ==
    /\ pc = "done"
    /\ ~result.success
    /\ result.ast # Null
    /\ result.ast.body # <<>>

\* C6: if compile returns success = TRUE the emitter ran and the output text
\* is not null; if it returns success = FALSE the emitter did not run and
\* the output text is absent or the comment that lists the errors.
C6_ErrorFlagSound ==
    pc = "done" =>
        IF result.success
        THEN js # NoText /\ result.js # NoText
        ELSE js = NoText /\ result.js \in {NoText, WrapResult(result)}

\* C7: for a source made of a statement, one defect and another statement,
\* compile records an error and returns an AST that is not null and whose
\* body holds both statements, in their order.
C7_ResyncKeepsBothStatements ==
    pc = "done" =>
        \A q \in DefectSeqs : code = Text(q) =>
            /\ errors # <<>>
            /\ ast # Null
            /\ \E i, j \in 1..Len(ast.body) :
                    /\ i < j
                    /\ ast.body[i] = StatementOf(q[1])
                    /\ ast.body[j] = StatementOf(q[3])

\* C8: writing the optional `;` at the end of the variable declarations,
\* expression statements, return, break and continue statements of a
\* program leaves the AST as it is.
C8_SemicolonsLeaveAst ==
    pc = "done" =>
        \A q \in OptionalSeqs : code = Text(q) =>
            ast = ParseOf(Text(Terminate(q))).node

\* C9: a program one of whose statements lacks its optional `;` compiles
\* with success, no error, and a warning about the missing semicolon.
C9_MissingSemicolonWarns ==
    pc = "done" =>
        \A q \in OptionalSeqs :
            (code = Text(q) /\ \E i \in DOMAIN q : q[i] \in Statements) =>
                /\ errors = <<>>
                /\ result.success
                /\ \E i \in DOMAIN warnings : HasAt(warnings[i], 1, <<"M","i","s","s","i","n","g"," ","s","e","m","i","c","o","l","o","n">>)

\* C10: the object literals {x} and {x:x} in expression position both parse
\* without error, to the same object-literal node: one property of key x
\* and value Identifier x.
C10_ShorthandEqualsKeyValue ==
    (pc = "done" /\ code \in {Text(<<o>>) : o \in ObjectStatements}) =>
        /\ errors = <<>>
        /\ ast = ParseOf(<<"v","=","{","x","}",";">>).node
        /\ ast.body[1].expression.right.properties =
                << [type |-> "Property",
                    key |-> [type |-> "Identifier", name |-> <<"x">>],
                    value |-> [type |-> "Identifier", name |-> <<"x">>],
                    computed |-> FALSE] >>

\* C11: every identifier of the rewrite table that a program uses is emitted
\* as its mapped text wherever it stands, so the output of a successful
\* compile holds the mapped text and never the bare identifier; an
\* identifier outside the table is emitted as it is.
C11_IntrinsicsRewritten ==
    (pc = "done" /\ result.success) =>
        /\ \A k \in DOMAIN IdentifierRewrites :
                /\ HasWord(code, IdentifierRewrites[k][1]) => HasText(js, IdentifierRewrites[k][2])
                /\ ~HasWord(js, IdentifierRewrites[k][1])
        /\ \A name \in {<<"a">>, <<"b">>, <<"c">>, <<"v">>, <<"f">>, <<"x">>} :
                HasWord(code, name) => HasWord(js, name)

\* C12: for all argument expressions a, b, c, vec2(a, b) is emitted as the
\* object literal with the fields x and y, in that order, that hold the
\* emitted a and b, and vec3(a, b, c) as the one with the fields x, y, z.
C12_VectorExpansion ==
    pc = "done" =>
        /\ \A a, b \in ArgExprs : code = Vec2Text(a, b) =>
                /\ result.success
                /\ js = <<"v","a","r"," ","p"," ","="," ","{"," ","x",":"," ">> \o EmitOf(a) \o <<","," ","y",":"," ">> \o EmitOf(b) \o <<" ","}",";">>
        /\ \A a, b, c \in ArgExprs : code = Vec3Text(a, b, c) =>
                /\ result.success
                /\ js = <<"v","a","r"," ","p"," ","="," ","{"," ","x",":"," ">> \o EmitOf(a) \o <<","," ","y",":"," ">> \o EmitOf(b)
                            \o <<","," ","z",":"," ">> \o EmitOf(c) \o <<" ","}",";">>

\* S3 of the specification has compiled
C12_Witness ==
    /\ pc = "done"
    /\ code = <<"v","a","r"," ","p"," ","="," ","v","e","c","2","(","1",","," ","2","+","3",")",";">>
    /\ js = <<"v","a","r"," ","p"," ","="," ","{"," ","x",":"," ","1",","," ","y",":"," ","2"," ","+"," ","3"," ","}",";">>

\* C13: for each lifecycle name n, the text compileToJS returns holds the
\* registration call of n if and only if the program declares a function
\* named n, and it holds no other register call.
C13_LifecycleEpilogue ==
    (pc = "done" /\ caller = "compileToJS") =>
        /\ \A k \in DOMAIN Lifecycle :
                HasText(output, Lifecycle[k].call) <=> Declares(code, Lifecycle[k].name)
        /\ Cardinality({i \in 1..Len(output) : HasAt(output, i, <<".","r","e","g","i","s","t","e","r">>)})
                = Cardinality({k \in DOMAIN Lifecycle : Declares(code, Lifecycle[k].name)})

\* C14: the program that declares the functions create, step(dt) and
\* draw(ctx) with empty bodies compiles with success, and the text
\* compileToJS returns for it holds the registrations of create, step and
\* draw in that order.
C14_LifecycleProgramCompiles ==
    (pc = "done" /\ code = <<"f","u","n","c","t","i","o","n"," ","c","r","e","a","t","e","(",")","{"," ","}","\n","f","u","n","c","t","i","o","n"," ","s","t","e","p","(","d","t",")","{"," ","}","\n","f","u","n","c","t","i","o","n"," ","d","r","a","w","(","c","t","x",")","{"," ","}">>) =>
        /\ result.success
        /\ errors = <<>>
        /\ caller = "compileToJS" =>
                \E i, j, k \in 1..Len(output) :
                    /\ i < j /\ j < k
                    /\ HasAt(output, i, Lifecycle[1].call)
                    /\ HasAt(output, j, Lifecycle[2].call)
                    /\ HasAt(output, k, Lifecycle[3].call)

\* C15: when the input ends inside a block, an error that mentions the end
\* of file is recorded, parsing aborts (the exception reaches parse, which
\* records it and returns no AST, and is not absorbed by the recovery of
\* parseProgram), compile returns success = FALSE, and the output holds
\* diagnostics only.
C15_UnterminatedBlockIsFatal ==
    (pc = "done" /\ code \in UnterminatedScenarios) =>
        /\ \E i \in DOMAIN errors : HasText(errors[i], <<"e","n","d"," ","o","f"," ","f","i","l","e">>)
        /\ \E i \in DOMAIN errors : HasAt(errors[i], 1, <<"P","a","r","s","i","n","g"," ","e","r","r","o","r",":"," ">>)
        /\ result.ast = Null
        /\ ~result.success
        /\ result.js \in {NoText, WrapResult(result)}
        /\ caller = "compileToJS" => output = WrapResult(result)

\* C16: a call of keyboard_check, keyboard_check_pressed or
\* keyboard_check_released records a warning if and only if it has not
\* exactly 1 argument, a call of draw_sprite or draw_text if and only if it
\* has fewer than 3; the mismatch records no error: the call compiles with
\* success and is emitted in its host form, as does draw_sprite("hero");.
C16_ArityWarnsOnly ==
    pc = "done" =>
        /\ \A f \in ArityFunctions, n \in ArityCounts : code = CallText(f, n) =>
                /\ errors = <<>>
                /\ result.success
                /\ (\E i \in DOMAIN warnings : HasAt(warnings[i], 1, f \o <<" ">>))
                        <=> IF HasAt(f, 1, <<"k","e","y","b","o","a","r","d","_","c","h","e","c","k">>) THEN n # 1 ELSE n < 3
                /\ HasText(js, generateIdentifier(f) \o <<"(">>)
        /\ code = <<"d","r","a","w","_","s","p","r","i","t","e","(","\"","h","e","r","o","\"",")",";">> =>
                /\ errors = <<>>
                /\ result.success
                /\ \E i \in DOMAIN warnings : HasAt(warnings[i], 1, <<"d","r","a","w","_","s","p","r","i","t","e"," ">>)
                /\ HasText(js, <<"S","A","A","A","M",".","d","r","a","w","S","p","r","i","t","e","(","\"","h","e","r","o","\"",")">>)

\* C20: && and || are each lexed as one OPERATOR token, so a && b and
\* a || b parse without error to a binary node of that operator, with
\* the operands a and b.
C20_LogicalOperatorsParse ==
    pc = "done" =>
        \A op \in LogicalOperators : code \in LogicalTexts(op) =>
            /\ Cardinality({i \in DOMAIN tokens : tokens[i].type = "OPERATOR"}) = 1
            /\ \E i \in DOMAIN tokens : tokens[i].type = "OPERATOR" /\ tokens[i].value = op
            /\ errors = <<>>
            /\ ast.body = << [type |-> "ExpressionStatement",
                              expression |->
                                [type |-> "BinaryExpression", operator |-> op,
                                 left |-> [type |-> "Identifier", name |-> <<"a">>, isPredefined |-> FALSE],
                                 right |-> [type |-> "Identifier", name |-> <<"b">>, isPredefined |-> FALSE]]] >>

\* C21: a chain of two binary operators parses by the ladder: the
\* operator of the tighter level groups first, two operators of one
\* level group to the left, two assignment operators group to the right.
C21_PrecedenceLadder ==
    pc = "done" =>
        \A c \in PrecedenceCases : code = c.text =>
            /\ errors = <<>>
            /\ ast.body = << [type |-> "ExpressionStatement", expression |-> c.tree] >>

C21_Witness ==
    /\ pc = "done"
    /\ code = Chain(<<"=">>, <<"=">>)
    /\ errors = <<>>
    /\ ast.body[1].expression.right.type = "AssignmentExpression"

\* C22: a well-formed switch statement parses without error to one
\* SwitchStatement node whose cases stand in source order, the default
\* clause and only it having a null test.
C22_SwitchParses ==
    pc = "done" =>
        \A c \in SwitchCases : code = c.text =>
            /\ errors = <<>>
            /\ Len(ast.body) = 1
            /\ ast.body[1].type = "SwitchStatement"
            /\ Len(ast.body[1].cases) = Len(c.clauses)
            /\ \A i \in DOMAIN c.clauses :
                   /\ ast.body[1].cases[i].type = "SwitchCase"
                   /\ (ast.body[1].cases[i].test = Null) <=> (c.clauses[i] = "default")

\* C23: a for header without the ';' after its init clause, be the
\* clause an expression or a var/let/const declaration, records an error.
C23_ForHeaderNeedsSemicolons ==
    pc = "done" => (code \in MissingInitSemicolon => errors # <<>>)

\* C24: a program that reads a before the declaration of a gets the
\* warning that a is used but not declared.
C24_UseBeforeDeclarationWarns ==
    pc = "done" =>
        (code \in UseBeforeDeclaration =>
            \E i \in DOMAIN warnings : warnings[i] = <<"V","a","r","i","a","b","l","e"," ","'","a","'"," ","i","s"," ","u","s","e","d"," ","b","u","t"," ","n","o","t"," ","d","e","c","l","a","r","e","d">>)

\* C25: the program and each function body have a scope of their own:
\* a declaration or parameter a of one function neither declares a
\* elsewhere nor counts as a second declaration there, and a parameter a
\* leaves the record of an outer a as it was.
C25_ScopePerFunction ==
    pc = "done" =>
        \A c \in ScopeCases : code = c.text =>
            /\ errors = <<>>
            /\ (\E i \in DOMAIN warnings : warnings[i] = c.warning) <=> c.given

\* C26: the text emitted for an expression with a parenthesised operand
\* parses back to the tree it was emitted from.
C26_EmissionKeepsGrouping ==
    pc = "done" =>
        (code \in GroupedScenarios =>
            /\ errors = <<>>
            /\ ParseOf(js).node = ast)

\* the emitted text up to its first closing parenthesis
HeaderOf(text) ==
    LET ends == {i \in DOMAIN text : text[i] = ")"}
    IN SubSeq(text, 1, CHOOSE i \in ends : \A j \in ends : i <= j)

\* C27: the header emitted for a for loop, whatever the form of its
\* init and update clauses, has exactly two semicolons.
C27_ForHeaderHasTwoSemicolons ==
    pc = "done" =>
        (code \in ForScenarios =>
            /\ errors = <<>>
            /\ Cardinality({i \in DOMAIN HeaderOf(js) : HeaderOf(js)[i] = ";"}) = 2)

\* C28: a name of the rewrite table that a program binds and then uses
\* is emitted in one form only, the bare name or its mapped text, at the
\* binding and at the use.
C28_BindingAndUseAgree ==
    pc = "done" =>
        \A c \in BindingCases : code = c.text =>
            /\ errors = <<>>
            /\ ~ (HasWord(js, c.name) /\ HasText(js, generateIdentifier(c.name)))

\* C29: whenever the parser has passed over a token or abandoned a
\* statement, an error is recorded; so a compile without error has
\* consumed every token before EOF into the tree.
C29_NoSilentLoss ==
    pc = "done" =>
        LET p == ParseOf(code).p
        IN /\ p.discarded > 0 => errors # <<>>
           /\ errors = <<>> => (p.discarded = 0 /\ peek(p).type = "EOF")

C29_Witness ==
    /\ pc = "done"
    /\ code = <<"s","w","i","t","c","h"," ","(","a",")"," ","{"," ","b"," ","}">>
    /\ ParseOf(code).p.discarded = 1
    /\ ast.body # <<>>
    /\ errors # <<>>

\* C30: from the start of the parse of a compile on, the cursor is at
\* least 0 and at most the index of the EOF token, which ends the token
\* list, so the token under the cursor exists; and the parse moves the
\* cursor forward only.  (consume alone changes the cursor, by one token a
\* call, so the values it takes inside the parse lie between the value
\* before and the value after.)
C30_CursorWithinTokens ==
    /\ [](pc \in {"parse", "spin", "analyze", "generate", "return", "wrap", "done"} =>
            /\ tokens # <<>>
            /\ tokens[Len(tokens)].type = "EOF"
            /\ \A i \in 1..(Len(tokens) - 1) : tokens[i].type # "EOF"
            /\ 0 <= currentToken
            /\ currentToken <= Len(tokens) - 1)
    /\ [][pc = "parse" => currentToken' >= currentToken]_vars

C30_Witness ==
    /\ pc = "done"
    /\ code \in DefectPrograms
    /\ ParseOf(code).p.discarded > 0
    /\ currentToken = Len(tokens) - 1

====
